---- MODULE Spec2Model ----
(***************************************************************************)
(* Model of the rental-listing chatbot: ChatbotService (response cache,    *)
(* sessions, chat turns) on top of RedisService (result cache, exact /     *)
(* semantic / hybrid search over the stored property documents).           *)
(*                                                                         *)
(* Time is counted in minutes: 2 * 60 * 1000 ms is 2, EX 300 is 5.         *)
(* Text is a sequence of one-character strings.                            *)
(***************************************************************************)
EXTENDS Integers, Sequences, FiniteSets, TLC

(***************************************************************************)
(* Bounds of the model.                                                    *)
(***************************************************************************)
\* last minute of the clock
MaxTime == 2
\* what one behaviour may spend: a chat turn costs 1, a turn started while another is
\* in flight 1 more, a store, embedding or generation call that fails FaultCost
MaxEffort == 4
\* capacity of the response cache in the model (max: 1000 in the source, scaled)
CacheMax == 2

(***************************************************************************)
(* Text helpers.                                                           *)
(***************************************************************************)
UpperToLower ==
  [A |-> "a", B |-> "b", C |-> "c", D |-> "d", E |-> "e", F |-> "f", G |-> "g",
   H |-> "h", I |-> "i", J |-> "j", K |-> "k", L |-> "l", M |-> "m", N |-> "n",
   O |-> "o", P |-> "p", Q |-> "q", R |-> "r", S |-> "s", T |-> "t", U |-> "u",
   V |-> "v", W |-> "w", X |-> "x", Y |-> "y", Z |-> "z"]

LowerChar(c) == IF c \in DOMAIN UpperToLower THEN UpperToLower[c] ELSE c

toLowerCase(s) == [i \in 1..Len(s) |-> LowerChar(s[i])]

Digits == {"0", "1", "2", "3", "4", "5", "6", "7", "8", "9"}

DigitVal ==
  [c \in Digits |->
     CASE c = "0" -> 0 [] c = "1" -> 1 [] c = "2" -> 2 [] c = "3" -> 3
       [] c = "4" -> 4 [] c = "5" -> 5 [] c = "6" -> 6 [] c = "7" -> 7
       [] c = "8" -> 8 [] c = "9" -> 9]

LowerLetters == {UpperToLower[u] : u \in DOMAIN UpperToLower}

\* \s of the regular expressions
IsSpace(c) == c \in {" ", "\t", "\n"}

\* \w of the regular expressions
IsWord(c) == c \in LowerLetters \cup DOMAIN UpperToLower \cup Digits \cup {"_"}

\* s.slice(a - 1, b) in one-based inclusive positions
Slice(s, a, b) == IF a > b THEN <<>> ELSE [i \in 1..(b - a + 1) |-> s[a + i - 1]]

\* String.prototype.trim
trim(s) ==
  LET ns == {i \in 1..Len(s) : ~IsSpace(s[i])}
  IN  IF ns = {} THEN <<>>
      ELSE Slice(s, CHOOSE i \in ns : \A j \in ns : i <= j,
                    CHOOSE i \in ns : \A j \in ns : i >= j)

\* sub occurs in s at position i
MatchAt(s, sub, i) ==
  /\ i >= 1
  /\ i + Len(sub) - 1 <= Len(s)
  /\ \A k \in 1..Len(sub) : s[i + k - 1] = sub[k]

\* String.prototype.includes
includes(s, sub) == \E i \in 1..(Len(s) + 1) : MatchAt(s, sub, i)

\* parseInt of a run of digits
RECURSIVE parseInt(_)
parseInt(ds) ==
  IF ds = <<>> THEN 0
  ELSE 10 * parseInt(SubSeq(ds, 1, Len(ds) - 1)) + DigitVal[ds[Len(ds)]]

\* substring(0, n)
substring0(s, n) == IF Len(s) <= n THEN s ELSE SubSeq(s, 1, n)

MaxKeyLen == 100

\* replace(/[^\w\s]/g, '')
removePunctuation(t) == SelectSeq(t, LAMBDA c : IsWord(c) \/ IsSpace(c))

\* replace(/\s+/g, ' ')
collapseSpaces(np) ==
  LET keep == SelectSeq([i \in 1..Len(np) |-> i],
                        LAMBDA i : ~IsSpace(np[i]) \/ i = 1 \/ ~IsSpace(np[i - 1]))
  IN  [k \in 1..Len(keep) |-> IF IsSpace(np[keep[k]]) THEN " " ELSE np[keep[k]]]

\* ChatbotService.normalizeCacheKey
normalizeCacheKey(userMessage) ==
  substring0(collapseSpaces(removePunctuation(trim(toLowerCase(userMessage)))), MaxKeyLen)

(***************************************************************************)
(* Words the filter extraction looks for.                                  *)
(***************************************************************************)
T_bed == <<"b", "e", "d">>

T_bath == <<"b", "a", "t", "h">>

T_under == <<"u", "n", "d", "e", "r">>

T_less_than == <<"l", "e", "s", "s", " ", "t", "h", "a", "n">>

T_below == <<"b", "e", "l", "o", "w">>

T_over == <<"o", "v", "e", "r">>

T_more_than == <<"m", "o", "r", "e", " ", "t", "h", "a", "n">>

T_above == <<"a", "b", "o", "v", "e">>

T_pet == <<"p", "e", "t">>

T_dog == <<"d", "o", "g">>

T_cat == <<"c", "a", "t">>

T_portland == <<"p", "o", "r", "t", "l", "a", "n", "d">>

T_fairview == <<"f", "a", "i", "r", "v", "i", "e", "w">>

T_beaverton == <<"b", "e", "a", "v", "e", "r", "t", "o", "n">>

T_gresham == <<"g", "r", "e", "s", "h", "a", "m">>


(***************************************************************************)
(* Structured filters.  A numeric field that is undefined is Undef, the    *)
(* undefined city is the empty text, pets_allowed is Undef, 0 (false) or 1 *)
(* (true).  Bath counts are in thousandths (parseFloat keeps decimals).    *)
(***************************************************************************)
Undef == -1

NoFilters ==
  [beds |-> Undef, baths |-> Undef,
   hasRent |-> FALSE, rentMin |-> Undef, rentMax |-> Undef,
   city |-> <<>>, pets_allowed |-> Undef,
   hasSqft |-> FALSE, sqftMin |-> Undef, sqftMax |-> Undef]

\* Object.keys(filters).length
FilterKeyCount(f) ==
    (IF f.beds # Undef THEN 1 ELSE 0) + (IF f.baths # Undef THEN 1 ELSE 0)
  + (IF f.hasRent THEN 1 ELSE 0) + (IF f.city # <<>> THEN 1 ELSE 0)
  + (IF f.pets_allowed # Undef THEN 1 ELSE 0) + (IF f.hasSqft THEN 1 ELSE 0)

\* end of the run of digits that starts at position i
RunEnd(s, i) ==
  CHOOSE e \in i..Len(s) :
    /\ \A k \in i..e : s[k] \in Digits
    /\ (e = Len(s) \/ s[e + 1] \notin Digits)

\* first position at or after j that holds no white space (Len(s) + 1 if none)
SkipSpaces(s, j) ==
  CHOOSE k \in j..(Len(s) + 1) :
    /\ \A m \in j..(k - 1) : IsSpace(s[m])
    /\ (k = Len(s) + 1 \/ ~IsSpace(s[k]))

\* least element of a non-empty set of integers
Least(S) == CHOOSE x \in S : \A y \in S : x <= y

\* /(\d+)\s*(?:bed|bedroom)/ : the positions where a match starts
BedStarts(s) ==
  {i \in 1..Len(s) : s[i] \in Digits /\ MatchAt(s, T_bed, SkipSpaces(s, RunEnd(s, i) + 1))}

\* end of \d+(?:\.\d+)? started at i, taking the decimal part when it is there
DecimalEnd(s, i) ==
  LET e == RunEnd(s, i)
  IN  IF e + 2 <= Len(s) /\ s[e + 1] = "." /\ s[e + 2] \in Digits
      THEN RunEnd(s, e + 2) ELSE e

\* /(\d+(?:\.\d+)?)\s*(?:bath|bathroom)/ : where a match starts and where group 1 ends
BathEnd(s, i) ==
  IF MatchAt(s, T_bath, SkipSpaces(s, DecimalEnd(s, i) + 1)) THEN DecimalEnd(s, i)
  ELSE IF MatchAt(s, T_bath, SkipSpaces(s, RunEnd(s, i) + 1)) THEN RunEnd(s, i)
  ELSE 0

BathStarts(s) == {i \in 1..Len(s) : s[i] \in Digits /\ BathEnd(s, i) # 0}

\* parseFloat of digits with an optional decimal part, in thousandths
parseFloat(ds) ==
  LET dots == {i \in 1..Len(ds) : ds[i] = "."}
  IN  IF dots = {} THEN 1000 * parseInt(ds)
      ELSE LET d    == Least(dots)
               frac == substring0(Slice(ds, d + 1, Len(ds)), 3)
               pad  == frac \o [k \in 1..(3 - Len(frac)) |-> "0"]
           IN  1000 * parseInt(Slice(ds, 1, d - 1)) + parseInt(pad)

\* /\$(\d+)(?:\s*-\s*\$?(\d+))?/ : the positions where a match starts
RentStarts(s) == {i \in 1..(Len(s) - 1) : s[i] = "$" /\ s[i + 1] \in Digits}

\* start of group 2 of the rent pattern for a match at i, 0 when the optional part is absent
RentSecondAfter(s, a) ==
  IF a <= Len(s) /\ s[a] = "$" /\ a + 1 <= Len(s) /\ s[a + 1] \in Digits THEN a + 1
  ELSE IF a <= Len(s) /\ s[a] \in Digits THEN a
  ELSE 0

RentSecondFrom(s, d) ==
  IF d <= Len(s) /\ s[d] = "-" THEN RentSecondAfter(s, SkipSpaces(s, d + 1)) ELSE 0

RentSecond(s, i) == RentSecondFrom(s, SkipSpaces(s, RunEnd(s, i + 1) + 1))

cities == <<T_portland, T_fairview, T_beaverton, T_gresham>>

\* lines 673-677: the bed count
bedsOf(lowerQuery, bs) ==
  IF bs = {} THEN Undef
  ELSE parseInt(Slice(lowerQuery, Least(bs), RunEnd(lowerQuery, Least(bs))))

\* lines 679-683: the bath count
bathsOf(lowerQuery, ts) ==
  IF ts = {} THEN Undef
  ELSE parseFloat(Slice(lowerQuery, Least(ts), BathEnd(lowerQuery, Least(ts))))

\* the number that starts at position i
numberAt(lowerQuery, i) == parseInt(Slice(lowerQuery, i, RunEnd(lowerQuery, i)))

\* lines 685-709: the rent range, for a match of the rent pattern at i with group 2 at g2
rentOf(lowerQuery, i, g2) ==
  LET isUnder == \/ includes(lowerQuery, T_under) \/ includes(lowerQuery, T_less_than)
                 \/ includes(lowerQuery, T_below)
      isOver  == \/ includes(lowerQuery, T_over) \/ includes(lowerQuery, T_more_than)
                 \/ includes(lowerQuery, T_above)
  IN  [min |-> IF isUnder THEN Undef ELSE numberAt(lowerQuery, i + 1),
       max |-> IF isUnder THEN numberAt(lowerQuery, i + 1)
               ELSE IF isOver THEN Undef
               ELSE IF g2 # 0 THEN numberAt(lowerQuery, g2)
               ELSE numberAt(lowerQuery, i + 1)]

\* lines 711-718: the first city of the list the text names
cityOf(found) == IF found = {} THEN <<>> ELSE cities[Least(found)]

filtersOf(beds, baths, hasRent, rent, city, pets_allowed) ==
  [beds |-> beds, baths |-> baths, hasRent |-> hasRent,
   rentMin |-> IF hasRent THEN rent.min ELSE Undef,
   rentMax |-> IF hasRent THEN rent.max ELSE Undef,
   city |-> city, pets_allowed |-> pets_allowed,
   hasSqft |-> FALSE, sqftMin |-> Undef, sqftMax |-> Undef]

NoRent == [min |-> Undef, max |-> Undef]

extractFiltersWith(lowerQuery, rs) ==
  filtersOf(bedsOf(lowerQuery, BedStarts(lowerQuery)),
            bathsOf(lowerQuery, BathStarts(lowerQuery)),
            rs # {},
            IF rs = {} THEN NoRent
            ELSE rentOf(lowerQuery, Least(rs), RentSecond(lowerQuery, Least(rs))),
            cityOf({k \in 1..Len(cities) : includes(lowerQuery, cities[k])}),
            IF \/ includes(lowerQuery, T_pet) \/ includes(lowerQuery, T_dog)
               \/ includes(lowerQuery, T_cat)
            THEN 1 ELSE Undef)

extractFiltersLower(lowerQuery) == extractFiltersWith(lowerQuery, RentStarts(lowerQuery))

\* ChatbotService.extractFilters
extractFilters(query) == extractFiltersLower(toLowerCase(query))

(***************************************************************************)
(* The property documents.  A document is named by its store key           *)
(* (property:<listing id>); its content is a function of the key.  The     *)
(* document under NoIdKey has no listing id, the one under NoNameKey has   *)
(* no property name.                                                       *)
(***************************************************************************)
\* number of store keys property:* the model knows
NKeys == 12

Keys == 1..NKeys

NoIdKey == 11

NoNameKey == 12

\* a missing listing_id / property_name
Missing == 0

\* the key of a document stored without listing_urls; KEYS lists it first
NoUrlsKey == 0

C_Portland == <<"P", "o", "r", "t", "l", "a", "n", "d">>

C_Gresham == <<"G", "r", "e", "s", "h", "a", "m">>

\* the embedding loadSampleData stores with a document (embedding:<id>), <<>> when it
\* stores none; removeSampleData removes it with the document
EmbeddingOf(k) ==
  IF k % 5 = 0 THEN <<>>
  ELSE IF k = 7 THEN <<1, 0, 1>>
  ELSE <<(k % 3) - 1, (k % 4) - 1>>

\* Property; json_length is the length of the document's JSON text
\* a property whose record is long (many photos); it is in no catalog
BigKey == 99

\* a property whose record alone is longer than the prompt may be; it is in no catalog
HugeKey == 98

PropOf(k) ==
  [has_urls      |-> k # NoUrlsKey,
   listing_id    |-> IF k \in {NoIdKey, NoUrlsKey} THEN Missing ELSE k,
   property_name |-> IF k = NoNameKey THEN Missing ELSE k,
   beds          |-> k % 3,
   baths         |-> 1000 * (1 + (k % 2)),
   rent          |-> 1000 + 500 * (k % 4),
   city          |-> IF k % 2 = 0 THEN C_Portland ELSE C_Gresham,
   pets_allowed  |-> IF k % 3 = 1 THEN 0 ELSE 1,
   square_feet   |-> 600 + 50 * k,
   json_length   |-> IF k = BigKey THEN 12000
                     ELSE IF k = HugeKey THEN 15000
                     ELSE 1400 + 10 * (k % 3)]

\* the catalogs a behaviour can start from
Catalogs == {{}, {1, 2}, {1, NoIdKey, NoNameKey}, Keys}

\* the keys of a set in the order KEYS property:* lists them
RECURSIVE KeysInOrder(_)
KeysInOrder(S) ==
  IF S = {} THEN <<>> ELSE <<Least(S)>> \o KeysInOrder(S \ {Least(S)})

\* the first of the properties without listing_urls, 0 when all have them; reading
\* listing_urls.listing_id of such a property raises
FirstWithoutUrls(properties) ==
  IF \A i \in 1..Len(properties) : PropOf(properties[i]).has_urls THEN 0
  ELSE Least({i \in 1..Len(properties) : ~PropOf(properties[i]).has_urls})

(***************************************************************************)
(* RedisService: filter predicate and similarity.                          *)
(***************************************************************************)
\* RedisService.matchesFilters; `filters` is never undefined at the call sites modelled
matchesFilters(property, filters) ==
  /\ (filters.beds = Undef \/ filters.beds = 0 \/ property.beds = filters.beds)
  /\ (filters.baths = Undef \/ filters.baths = 0 \/ property.baths = filters.baths)
  /\ \/ ~filters.hasRent
     \/ /\ (filters.rentMin = Undef \/ filters.rentMin = 0 \/ property.rent >= filters.rentMin)
        /\ (filters.rentMax = Undef \/ filters.rentMax = 0 \/ property.rent <= filters.rentMax)
  /\ \/ filters.city = <<>>
     \/ includes(toLowerCase(property.city), toLowerCase(filters.city))
  /\ (filters.pets_allowed = Undef \/ property.pets_allowed = filters.pets_allowed)
  /\ \/ ~filters.hasSqft
     \/ /\ \/ filters.sqftMin = Undef \/ filters.sqftMin = 0
           \/ property.square_feet >= filters.sqftMin
        /\ \/ filters.sqftMax = Undef \/ filters.sqftMax = 0
           \/ property.square_feet <= filters.sqftMax

\* sum of a[i] * b[i]
RECURSIVE Dot(_, _)
Dot(a, b) == IF a = <<>> THEN 0 ELSE Head(a) * Head(b) + Dot(Tail(a), Tail(b))

SimScale == 1000000

\* variant: the dimensions are not compared, the longer vector is cut to the shorter
cosineSimilarity_cutsLonger(a, b) ==
  LET n == IF Len(a) < Len(b) THEN Len(a) ELSE Len(b)
      dotProduct == Dot(SubSeq(a, 1, n), SubSeq(b, 1, n))
      normA == Dot(a, a)
      normB == Dot(b, b)
  IN  IF normA * normB = 0 THEN 0
      ELSE IF dotProduct >= 0
           THEN (SimScale * dotProduct * dotProduct) \div (normA * normB)
           ELSE 0 - ((SimScale * dotProduct * dotProduct) \div (normA * normB))

\* RedisService.cosineSimilarity.  Without reals the value c = dot / (|a| * |b|) is
\* reported as sign(c) * c^2 * SimScale (rounded down), which orders as c does and is
\* 0 exactly when c is 0.
cosineSimilarity(a, b) ==
  IF Len(a) # Len(b) THEN 0
  ELSE LET dotProduct == Dot(a, b)
           normA == Dot(a, a)
           normB == Dot(b, b)
       IN  IF normA * normB = 0 THEN 0
           ELSE IF dotProduct >= 0
                THEN (SimScale * dotProduct * dotProduct) \div (normA * normB)
                ELSE 0 - ((SimScale * dotProduct * dotProduct) \div (normA * normB))

\* Array.prototype.sort((a, b) => b.similarity - a.similarity): stable, descending
SortBySimilarity(items, qe) ==
  LET n == Len(items)
      sim(k) == cosineSimilarity(qe, EmbeddingOf(k))
      pos(i) == 1 + Cardinality({j \in 1..n :
                  \/ sim(items[j]) > sim(items[i])
                  \/ (sim(items[j]) = sim(items[i]) /\ j < i)})
  IN  [p \in 1..n |-> items[CHOOSE i \in 1..n : pos(i) = p]]

(***************************************************************************)
(* RedisService: the search.  The functions are asynchronous methods that  *)
(* read and write the in-memory property cache; here each takes the        *)
(* context of the call                                                     *)
(*   c = [docs, now, fault, qe]   (stored keys, clock, the store or        *)
(*        embedding call that fails in this search, the query embedding)   *)
(* and the cache h = [propertyCache, cacheTimestamp], and returns          *)
(*   [ret, h, threw, failed, enumerated, embedded]                         *)
(* the value returned, the cache afterwards, whether it raised, whether a  *)
(* store call it made failed, whether KEYS property:* was issued and       *)
(* whether the embedding service was called.                               *)
(***************************************************************************)
CACHE_TTL == 5

LangCacheEX == 5

ResultCap == 10

FtLimit == 10

SemanticTop == 5

SupplementThreshold == 3

MergeCap == 5

\* the single call that fails during one search ("none": nothing fails)
BeginFaults == {"none", "conn", "cacheGet"}

ComputeFaults == {"none", "ftSearch", "keys", "doc", "embedStore", "embedApi", "cacheSet"}

\* what the embedding service may return for a query
QueryEmbeddings == {<<1, 0>>, <<1, 1>>}

\* array.slice(0, n)
Take(seq, n) == IF Len(seq) <= n THEN seq ELSE SubSeq(seq, 1, n)

Returned(ret, h, enumerated, embedded) ==
  [ret |-> ret, h |-> h, threw |-> FALSE, failed |-> FALSE, enumerated |-> enumerated,
   embedded |-> embedded]

Raised(h, enumerated, embedded) ==
  [ret |-> <<>>, h |-> h, threw |-> TRUE, failed |-> TRUE, enumerated |-> enumerated,
   embedded |-> embedded]

\* fallbackExactSearch lines 393-424: the documents of the keys are read, the one that
\* cannot be read is left out, and the list is kept in the property cache
loadProperties(c, properties) ==
  [Returned(properties, [propertyCache |-> properties, cacheTimestamp |-> c.now],
            TRUE, FALSE)
     EXCEPT !.failed = (c.fault = "doc")]

loadKeys(c, h, keys) ==
  IF Len(keys) = 0 THEN Returned(<<>>, h, TRUE, FALSE)
  ELSE loadProperties(c, SelectSeq(keys, LAMBDA k : ~(c.fault = "doc" /\ k = keys[1])))

\* RedisService.fallbackExactSearch
fallbackExactSearch(c, h) ==
  IF Len(h.propertyCache) > 0 /\ (c.now - h.cacheTimestamp) < CACHE_TTL
  THEN Returned(h.propertyCache, h, FALSE, FALSE)
  ELSE IF c.fault = "keys" THEN Raised(h, TRUE, FALSE)
  ELSE loadKeys(c, h, KeysInOrder(c.docs))

\* the documents FT.SEARCH idx:properties returns for the conditions fastExactSearch builds
IndexMatches(property, filters) ==
  /\ (filters.beds \in {Undef, 0} \/ property.beds = filters.beds)
  /\ (filters.baths \in {Undef, 0} \/ property.baths = filters.baths)
  /\ (~filters.hasRent \/ filters.rentMin \in {Undef, 0} \/ property.rent >= filters.rentMin)
  /\ (~filters.hasRent \/ filters.rentMax \in {Undef, 0} \/ property.rent <= filters.rentMax)
  /\ (filters.city = <<>> \/ toLowerCase(property.city) = toLowerCase(filters.city))
  /\ (filters.pets_allowed = Undef \/ property.pets_allowed = filters.pets_allowed)

\* fastExactSearch lines 351-371: FT.SEARCH returned `found`, whose documents are read;
\* a failure of either falls back
ftSearch(c, h, found) ==
  IF c.fault = "ftSearch" \/ (c.fault = "doc" /\ Len(found) > 0)
  THEN [fallbackExactSearch(c, h) EXCEPT !.failed = TRUE]
  ELSE Returned(found, h, FALSE, FALSE)

\* RedisService.fastExactSearch
fastExactSearch(c, h, query) ==
  IF FilterKeyCount(query.filters) = 0 THEN fallbackExactSearch(c, h)
  ELSE ftSearch(c, h, Take(SelectSeq(KeysInOrder(c.docs),
                                     LAMBDA k : IndexMatches(PropOf(k), query.filters)),
                           FtLimit))

\* variant: the filtered list is returned whole
filterAndCap_noCap(r, query) ==
  IF r.threw THEN r
  ELSE [r EXCEPT !.ret = SelectSeq(r.ret,
                           LAMBDA k : matchesFilters(PropOf(k), query.filters))]

\* exactSearch lines 435-440: what fastExactSearch returned is filtered and cut to ten
filterAndCap(r, query) ==
  IF r.threw THEN r
  ELSE IF Len(r.ret) > 0
       THEN [r EXCEPT !.ret =
               Take(SelectSeq(r.ret, LAMBDA k : matchesFilters(PropOf(k), query.filters)),
                    ResultCap)]
       ELSE [r EXCEPT !.ret = Take(r.ret, ResultCap)]

\* RedisService.exactSearch
exactSearch(c, h, query) == filterAndCap(fastExactSearch(c, h, query), query)

\* semanticSearch lines 510-523: the properties with an embedding are ranked and the
\* first five returned; with no embedding at all the first five properties are
rankByEmbedding(c, f, withEmbeddings) ==
  LET sorted == SortBySimilarity(withEmbeddings, c.qe)
  IN  [Returned(IF Len(withEmbeddings) = 0 THEN Take(f.ret, SemanticTop)
                ELSE Take(sorted, SemanticTop),
                f.h, f.enumerated, TRUE)
         EXCEPT !.failed = f.failed]

\* semanticSearch lines 498-527, f being what fallbackExactSearch returned
semanticOver(c, f) ==
  IF f.threw \/ (c.fault = "embedStore" /\ Len(f.ret) > 0) \/ FirstWithoutUrls(f.ret) # 0
  THEN [Returned(<<>>, f.h, f.enumerated, TRUE) EXCEPT !.failed = TRUE]
  ELSE rankByEmbedding(c, f,
         SelectSeq(f.ret, LAMBDA k : k \in c.docs /\ EmbeddingOf(k) # <<>>))

\* RedisService.semanticSearch
semanticSearch(c, h) ==
  IF c.fault = "embedApi" THEN Returned(<<>>, h, FALSE, TRUE)
  ELSE semanticOver(c, fallbackExactSearch(c, h))

\* hybridSearch lines 312-317: the exact results e are supplemented
mergeResults(e, sem) ==
  LET existingIds == {PropOf(e.ret[i]).listing_id : i \in 1..Len(e.ret)}
      additionalResults ==
        SelectSeq(sem.ret, LAMBDA k : PropOf(k).listing_id \notin existingIds)
  IN  [Returned(e.ret \o Take(additionalResults, MergeCap - Len(e.ret)),
                sem.h, e.enumerated \/ sem.enumerated, TRUE)
         EXCEPT !.failed = e.failed \/ sem.failed]

\* hybridSearch lines 318-321: the exact search is run again
retried(e, again) ==
  [again EXCEPT !.enumerated = e.enumerated \/ again.enumerated, !.failed = TRUE]

\* hybridSearch lines 309-321: the semantic search has returned; reading the listing
\* ids of the exact results raises when one has no listing_urls
supplemented(c, e, sem, query) ==
  IF FirstWithoutUrls(e.ret) # 0
  THEN [retried(e, exactSearch(c, sem.h, query)) EXCEPT !.embedded = TRUE]
  ELSE mergeResults(e, sem)

\* variant: a failure of the embedding call ends the search
hybridOver_embeddingAborts(c, e, query) ==
  IF e.threw THEN retried(e, exactSearch(c, e.h, query))
  ELSE IF Len(e.ret) >= SupplementThreshold THEN e
  ELSE IF c.fault = "embedApi" THEN Raised(e.h, e.enumerated, TRUE)
  ELSE supplemented(c, e, semanticSearch(c, e.h), query)

\* hybridSearch lines 301-321, e being what the first exactSearch returned
hybridOver(c, e, query) ==
  IF e.threw THEN retried(e, exactSearch(c, e.h, query))
  ELSE IF Len(e.ret) >= SupplementThreshold THEN e
  ELSE supplemented(c, e, semanticSearch(c, e.h), query)

\* RedisService.hybridSearch
hybridSearch(c, h, query) == hybridOver(c, exactSearch(c, h, query), query)

\* variant: a failure of the cache write leaves the list found in the result
caughtOrReturned_keepsList(c, r) ==
  IF r.threw THEN [r EXCEPT !.ret = <<>>]
  ELSE IF c.fault = "cacheSet" THEN [r EXCEPT !.threw = TRUE, !.failed = TRUE]
  ELSE r

\* searchProperties lines 275-292: the result is written to the result cache; a failure
\* of the search or of the write is caught
caughtOrReturned(c, r) ==
  IF r.threw \/ c.fault = "cacheSet"
  THEN [r EXCEPT !.ret = <<>>, !.threw = TRUE, !.failed = TRUE]
  ELSE r

\* RedisService.searchProperties after a cache miss: lines 264-292
ComputeSearch(c, h, query) ==
  caughtOrReturned(c, IF FilterKeyCount(query.filters) > 0
                      THEN exactSearch(c, h, query) ELSE hybridSearch(c, h, query))

\* RedisService.getCacheKey: the text hashed stands for its SHA-256 digest
getCacheKey(query) == <<toLowerCase(trim(query.query)), query.filters>>

(***************************************************************************)
(* ChatbotService: the response cache (an LRUCache with max, ttl,          *)
(* updateAgeOnGet and allowStale: false).  The cache is the sequence of    *)
(* its entries from least to most recently used; start is the time the     *)
(* entry's age is counted from.                                            *)
(***************************************************************************)
LRU_TTL == 5

RESP_TTL == 2

lruIndex(cache, key) ==
  IF \E i \in 1..Len(cache) : cache[i].key = key
  THEN CHOOSE i \in 1..Len(cache) : cache[i].key = key
  ELSE 0

lruRemove(cache, i) == SubSeq(cache, 1, i - 1) \o SubSeq(cache, i + 1, Len(cache))

lruIsStale(entry, t) == t - entry.start > LRU_TTL

\* LRUCache.get: is there a value to return
lruHas(cache, key, t) ==
  lruIndex(cache, key) # 0 /\ ~lruIsStale(cache[lruIndex(cache, key)], t)

\* LRUCache.get: the cache afterwards (a stale entry is deleted, a live one is moved to
\* the most recently used end and its age restarts)
lruAfterGet(cache, key, t) ==
  LET i == lruIndex(cache, key)
  IN  IF i = 0 THEN cache
      ELSE IF lruIsStale(cache[i], t) THEN lruRemove(cache, i)
      ELSE Append(lruRemove(cache, i), [cache[i] EXCEPT !.start = t])

\* variant: an insert that overflows evicts the most recently used entry
lruSet_evictsNewest(cache, key, response, t) ==
  LET i     == lruIndex(cache, key)
      entry == [key |-> key, response |-> response, timestamp |-> t, start |-> t]
  IN  IF i # 0 THEN Append(lruRemove(cache, i), entry)
      ELSE IF Len(cache) >= CacheMax
           THEN Append(SubSeq(cache, 1, Len(cache) - 1), entry)
      ELSE Append(cache, entry)

\* LRUCache.set
lruSet(cache, key, response, t) ==
  LET i     == lruIndex(cache, key)
      entry == [key |-> key, response |-> response, timestamp |-> t, start |-> t]
  IN  IF i # 0 THEN Append(lruRemove(cache, i), entry)
      ELSE IF Len(cache) >= CacheMax THEN Append(Tail(cache), entry)
      ELSE Append(cache, entry)

\* variant: the cached answer is used for a shorter time
IsCacheHit_shortTtl(cache, key, t) ==
  /\ lruHas(cache, key, t)
  /\ (t - cache[lruIndex(cache, key)].timestamp) < RESP_TTL - 1

\* variant: the cached answer is used for as long as the LRU cache returns it
IsCacheHit_lruOnly(cache, key, t) == lruHas(cache, key, t)

\* handleMessage lines 158-159: the cached answer is used
IsCacheHit(cache, key, t) ==
  /\ lruHas(cache, key, t)
  /\ (t - cache[lruIndex(cache, key)].timestamp) < RESP_TTL

(***************************************************************************)
(* ChatbotService: prompt size and answer text.                            *)
(***************************************************************************)
MaxTokens == 4000

\* JSON.stringify(truncatedProperties).length
JsonLength(properties) ==
  LET RECURSIVE Sum(_)
      Sum(q) == IF q = <<>> THEN 0 ELSE PropOf(Head(q)).json_length + Sum(Tail(q))
  IN  IF Len(properties) = 0 THEN 2
      ELSE 2 + Sum(properties) + (Len(properties) - 1)

\* ChatbotService.estimateTokens: Math.ceil(length / 3.5)
estimateTokens(length) == (2 * length + 6) \div 7

\* ChatbotService.truncatePropertyData
truncatePropertyData(properties, maxTokens) ==
  LET estimatedTokens == estimateTokens(JsonLength(properties))
  IN  IF estimatedTokens > maxTokens
      THEN Take(properties, (maxTokens * Len(properties)) \div estimatedTokens)
      ELSE properties

\* lines 291-314: the links appended for the first two properties whose links are cached
AppendedLinks(truncated, linkCache) ==
  SelectSeq(Take(truncated, 2), LAMBDA k : PropOf(k).listing_id \in linkCache)

\* the fixed answers
NoPropertiesText ==
  "I don't have any properties available at the moment. Please try again later or contact us for assistance."

TroubleText ==
  "I'm having trouble processing your request right now. Please try again."

\* lines 243-314: the answer of a turn.  chat(messages, true) resolves to the provider's
\* stream, which has no `content`, so the generated text read from it is empty.
AnswerOf(truncated, genOk, linkCache) ==
  IF Len(truncated) > 0
  THEN [text |-> IF genOk THEN "" ELSE TroubleText,
        links |-> AppendedLinks(truncated, linkCache)]
  ELSE [text |-> IF genOk THEN "" ELSE NoPropertiesText, links |-> <<>>]

FixedAnswer(text) == [text |-> text, links |-> <<>>]

\* the error the read of listing_id of undefined raises
LinkError == "TypeError: Cannot read properties of undefined (reading 'listing_id')"

ErrorText == "Sorry, I encountered an error. Please try again."

\* variant: the text of the error is returned
caught_rawError(error) == FixedAnswer(error)

\* handleMessage lines 396-402: whatever was raised, the fixed text is returned
caught(error) == FixedAnswer(ErrorText)

(***************************************************************************)
(* State.                                                                  *)
(***************************************************************************)
VARIABLES
  now,                \* Date.now(), in minutes
  docs,               \* store: the keys property:* that hold a document
  propertyCache,      \* RedisService.propertyCache
  cacheTimestamp,     \* RedisService.cacheTimestamp
  langCache,          \* store: the entries langcache:<hash> (fp, ret, setAt)
  responseCache,      \* ChatbotService.responseCache
  sessions,           \* store: session:<id> -> [exists, messages]
  propertyLinkCache,  \* module-level propertyLinkCache: the listing ids with links
  req,                \* the chat turn each request slot is in
  started,            \* session id -> chat turns started on it
  gWritten,           \* history: normalized message -> last answer written and when
  gRet,               \* history: the turn that completed in the last step
  gOverlap,           \* history: session id -> two of its turns overlapped
  gRecent,            \* history: normalized messages, least recently used in the cache first
  spent,              \* what the behaviour has spent of MaxEffort
  gFaulted,           \* history: some call of a chat turn has failed
  call,               \* the direct searchProperties call each slot is in
  gSearch,            \* history: the searchProperties call that returned in the last step,
                      \*          with what its exact search found
  gLang,              \* history: fingerprint -> the lists written to the result cache
                      \*          less than EX ago and when, oldest first
  mfArgs,             \* the record and filters matchesFilters is applied to
  mfResult,           \* what it returned
  st,                 \* the streaming turn: handleMessageStream, its stream, its reader
  openaiCache,        \* OpenAIService.responseCache: prompt -> generated text
  cls,                \* the message determineQueryType and extractFilters are applied to,
                      \*   and what they returned
  rateLimitMap,       \* rateLimitMap of the rate limiting middleware
  gAdmit,             \* history: the request the middleware handled in the last step,
                      \*   and the times it admitted a request of each session id
  retry,              \* the call of retryWithBackoff: outcomes to come, attempt, waits
  linked,             \* the text and candidates the link post-processing is applied to
  truncation,         \* the list and budget truncatePropertyData is applied to
  keyed,              \* the two messages normalizeCacheKey and extractFilters are applied to,
                      \*   and what they returned
  api,                \* POST /api/chat: the service's response cache and sessions, and
                      \*   history: the request handled in the last step
  conn,               \* RedisService: isConnected, connectionPromise, the client's
                      \*   connection attempts and the callers of connect
  cosine,             \* the vectors cosineSimilarity is applied to, and what it returned
  stale               \* history: the searchProperties call that returned in the last step,
                      \*   and when each property was last stored and removed

vars == <<now, docs, propertyCache, cacheTimestamp, langCache, responseCache, sessions,
          propertyLinkCache, req, started, gWritten, gRet, gOverlap, gRecent, spent, gFaulted,
          call, gSearch, gLang, mfArgs, mfResult, st, openaiCache, cls, rateLimitMap,
          gAdmit, retry, linked, truncation, keyed, api, conn, cosine, stale>>

chatVars == <<responseCache, sessions, propertyLinkCache, req, started, gWritten, gRet,
              gOverlap, gRecent, gFaulted>>

searchVars == <<call, gSearch, gLang>>

filterVars == <<mfArgs, mfResult>>

streamVars == <<st, openaiCache>>

\* the state of the specifications of single functions and of the middleware
unitVars == <<cls, rateLimitMap, gAdmit, retry, linked, truncation>>

probeVars == <<keyed, api, conn, cosine, stale>>

\* what a streaming turn leaves alone of the chat turns
turnVars == <<responseCache, req, started, gWritten, gRet, gOverlap, gRecent, gFaulted>>

storeVars == <<docs, propertyCache, cacheTimestamp, langCache>>

Procs == {1, 2}

SessionIds == {"s1"}

\* the user messages of the model: "pets", "Pets!", "all", "2 bed"
Messages ==
  << <<"p", "e", "t", "s">>,
     <<"P", "e", "t", "s", "!">>,
     <<"a", "l", "l">>,
     <<"2", " ", "b", "e", "d">> >>

MsgIds == 1..Len(Messages)

NormKeys == {normalizeCacheKey(Messages[m]) : m \in MsgIds}

T_star == <<"*">>

\* the catalogs a behaviour of chat turns can start from
ChatCatalogs == {{}, {1, 2}, {NoUrlsKey, 1, 2}, 1..10}

IdleReq ==
  [pc |-> "idle", sid |-> "", msg |-> 0, turn |-> 0, session |-> <<>>, props |-> <<>>,
   fresh |-> FALSE, held |-> FALSE, lapsed |-> FALSE, searches |-> 0, sfail |-> FALSE]

NoRet == [done |-> FALSE, hit |-> FALSE, fresh |-> FALSE, same |-> FALSE,
          searches |-> 0, gens |-> 0, answer |-> FixedAnswer(""), props |-> <<>>,
          genFailed |-> FALSE, sfail |-> FALSE, threw |-> FALSE]

NoSession == [exists |-> FALSE, messages |-> <<>>]

NotWritten == [written |-> FALSE, answer |-> FixedAnswer(""), at |-> 0, hit |-> FALSE]

Turns == LET RECURSIVE Sum(_)
             Sum(S) == IF S = {} THEN 0
                       ELSE LET s == CHOOSE x \in S : TRUE IN started[s] + Sum(S \ {s})
         IN  Sum(SessionIds)

\* the queries of the direct searchProperties calls, built as handleMessage lines
\* 171-179 build them: "all", "All ", "pets"
SearchTexts ==
  << <<"a", "l", "l">>,
     <<"A", "l", "l", " ">>,
     <<"p", "e", "t", "s">> >>

SearchQueries ==
  [i \in 1..Len(SearchTexts) |->
     [query |-> SearchTexts[i], filters |-> extractFilters(SearchTexts[i])]]

QueryIds == 1..Len(SearchTexts)

Fingerprints == {getCacheKey(SearchQueries[i]) : i \in QueryIds}

IdleCall == [pc |-> "idle", qi |-> 0, live |-> FALSE, lists |-> <<>>]

NoSearch ==
  [done |-> FALSE, qi |-> 0, properties |-> <<>>, cacheHit |-> FALSE, fault |-> "none",
   failed |-> FALSE, enumerated |-> FALSE, embedded |-> FALSE, live |-> FALSE,
   lists |-> <<>>, exact |-> <<>>]

\* the filters matchesFilters is applied to
FilterInputs ==
  {[NoFilters EXCEPT !.beds = b, !.pets_allowed = pa, !.city = c,
                     !.hasRent = (mx # Undef), !.rentMax = mx] :
     b \in {Undef, 0, 1, 2}, pa \in {Undef, 0, 1}, c \in {<<>>, T_portland},
     mx \in {Undef, 1500}}

NoArgs == [property |-> 0, filters |-> NoFilters]

NoResult == [applied |-> FALSE, value |-> FALSE]

InitSearchVars ==
  /\ call = [s \in Procs |-> IdleCall]
  /\ gSearch = NoSearch
  /\ gLang = [fp \in Fingerprints |-> <<>>]

InitFilterVars ==
  /\ mfArgs = NoArgs
  /\ mfResult = NoResult

\* the streaming turn before a request
IdleStream ==
  [pc |-> "idle", sid |-> "", msg |-> 0, props |-> <<>>, searches |-> 0, gens |-> 0,
   greeting |-> FALSE, answer |-> <<>>, size |-> 0, i |-> 0, producer |-> "none",
   closeRequested |-> FALSE, cancelled |-> FALSE, queue |-> <<>>, delivered |-> <<>>,
   sizes |-> <<>>, done |-> FALSE, late |-> 0,
   upstream |-> <<>>, callOpen |-> FALSE, fullResponse |-> "", lateReads |-> 0,
   lateStore |-> FALSE]

NoCls == [msg |-> <<>>, applied |-> FALSE, type |-> "", filters |-> NoFilters]

InitProbeVars ==
  /\ keyed = <<>>
  /\ api = <<>>
  /\ conn = <<>>
  /\ cosine = <<>>
  /\ stale = <<>>

InitUnitVars ==
  /\ InitProbeVars
  /\ cls = NoCls
  /\ rateLimitMap = <<>>
  /\ gAdmit = <<>>
  /\ retry = <<>>
  /\ linked = <<>>
  /\ truncation = <<>>

InitStreamVars ==
  /\ st = IdleStream
  /\ openaiCache = {}

InitStore ==
  /\ now = 0
  /\ propertyCache = <<>>
  /\ cacheTimestamp = 0
  /\ langCache = {}
  /\ spent = 0

InitChatVars ==
  /\ responseCache = <<>>
  /\ sessions = [s \in SessionIds |-> NoSession]
  /\ propertyLinkCache = {}
  /\ req = [p \in Procs |-> IdleReq]
  /\ started = [s \in SessionIds |-> 0]
  /\ gWritten = [k \in NormKeys |-> NotWritten]
  /\ gRet = NoRet
  /\ gOverlap = [s \in SessionIds |-> FALSE]
  /\ gRecent = <<>>
  /\ gFaulted = FALSE

Init ==
  /\ docs \in ChatCatalogs
  /\ InitStore
  /\ InitChatVars
  /\ InitSearchVars
  /\ InitFilterVars
  /\ InitStreamVars
  /\ InitUnitVars

(***************************************************************************)
(* RedisService.searchProperties as one step: lines 244-293.               *)
(***************************************************************************)
\* variant: an entry is found for a shorter time
LangEntries_shortTtl(cache, fp, t) ==
  {e \in cache : e.fp = fp /\ (t - e.setAt) < LangCacheEX - 1}

\* client.get(cacheKey), line 251: the entry of the fingerprint whose EX has not run out
LangEntries(cache, fp, t) == {e \in cache : e.fp = fp /\ (t - e.setAt) < LangCacheEX}

LangSet(cache, fp, ret, t) ==
  {e \in cache : e.fp # fp} \cup {[fp |-> fp, ret |-> ret, setAt |-> t]}

\* the property cache as it is
CacheNow == [propertyCache |-> propertyCache, cacheTimestamp |-> cacheTimestamp]

\* lines 284-292: a failure before the search
searchFailed ==
  [properties |-> <<>>, cacheHit |-> FALSE, h |-> CacheNow, lang |-> langCache,
   threw |-> TRUE, enumerated |-> FALSE, embedded |-> FALSE]

\* lines 252-259: the cached list is returned
searchHit(hit) ==
  [properties |-> (CHOOSE e \in hit : TRUE).ret, cacheHit |-> TRUE, h |-> CacheNow,
   lang |-> langCache, threw |-> FALSE, enumerated |-> FALSE, embedded |-> FALSE]

\* lines 263-292: the list computed is cached and returned
searchMissed(fp, r) ==
  [properties |-> r.ret, cacheHit |-> FALSE, h |-> r.h,
   lang |-> IF r.threw THEN langCache ELSE LangSet(langCache, fp, r.ret, now),
   threw |-> r.threw, enumerated |-> r.enumerated, embedded |-> r.embedded]

searchLookedUp(query, fp, hit, cfault, qe) ==
  IF hit # {} THEN searchHit(hit)
  ELSE searchMissed(fp, ComputeSearch([docs |-> docs, now |-> now, fault |-> cfault,
                                        qe |-> qe], CacheNow, query))

searchKeyed(query, fp, cfault, qe) ==
  searchLookedUp(query, fp, LangEntries(langCache, fp, now), cfault, qe)

\* the SearchResult, with the store and property cache afterwards
searchProperties(query, bfault, cfault, qe) ==
  IF bfault # "none" THEN searchFailed
  ELSE searchKeyed(query, getCacheKey(query), cfault, qe)

(***************************************************************************)
(* ChatbotService.handleMessage, one action per stretch between awaits.    *)
(***************************************************************************)
InFlight(p) == req[p].pc # "idle"

FaultCost == 2

\* a call of this step fails (failed) or all succeed
Fails(failed) ==
  /\ failed => spent + FaultCost <= MaxEffort
  /\ spent' = IF failed THEN spent + FaultCost ELSE spent
  /\ gFaulted' = (gFaulted \/ failed)

\* history: key was used in the response cache
Used(recent, key) == Append(SelectSeq(recent, LAMBDA k : k # key), key)

\* lines 145-165: the cache lookup; a hit returns, a miss goes on to the session.
\* A request takes the lowest free slot.
Start(p, sid, m) ==
  LET key    == normalizeCacheKey(Messages[m])
      hit    == IsCacheHit(responseCache, key, now)
      cached == responseCache[lruIndex(responseCache, key)]
      w      == gWritten[key]
      fresh  == w.written /\ (now - w.at) < RESP_TTL
      cost   == IF ~hit /\ (\E q \in Procs : InFlight(q)) THEN 2 ELSE 1
  IN  /\ req[p].pc = "idle"
      /\ \A q \in Procs : q < p => InFlight(q)
      /\ spent + cost <= MaxEffort
      /\ spent' = spent + cost
      /\ started' = [started EXCEPT ![sid] = @ + 1]
      /\ responseCache' = lruAfterGet(responseCache, key, now)
      /\ gRecent' = IF lruHas(responseCache, key, now) THEN Used(gRecent, key) ELSE gRecent
      /\ IF hit
         THEN /\ gRet' = [NoRet EXCEPT !.done = TRUE, !.hit = TRUE, !.fresh = fresh,
                                       !.same = (cached.response = w.answer),
                                       !.answer = cached.response]
              /\ gWritten' = [gWritten EXCEPT ![key].hit = TRUE]
              /\ UNCHANGED <<req, gOverlap>>
         ELSE /\ req' = [req EXCEPT ![p] =
                   [pc |-> "getSession", sid |-> sid, msg |-> m, turn |-> Turns + 1,
                    session |-> <<>>, props |-> <<>>, fresh |-> fresh,
                    held |-> lruIndex(responseCache, key) # 0,
                    lapsed |-> w.written /\ w.hit /\ ~fresh, searches |-> 0,
                    sfail |-> FALSE]]
              /\ gOverlap' = [gOverlap EXCEPT ![sid] =
                   @ \/ \E q \in Procs \ {p} : InFlight(q) /\ req[q].sid = sid]
              /\ gRet' = NoRet
              /\ UNCHANGED gWritten
      /\ UNCHANGED <<searchVars, filterVars, streamVars, unitVars, probeVars>>
      /\ UNCHANGED <<now, storeVars, sessions, propertyLinkCache, gFaulted>>

\* variant: a session that cannot be read ends the turn
GetSession_aborts(p, readOk) ==
  /\ req[p].pc = "getSession"
  /\ req' = [req EXCEPT ![p] =
       IF ~readOk THEN IdleReq
       ELSE IF sessions[req[p].sid].exists
       THEN [@ EXCEPT !.pc = "search1", !.session = sessions[req[p].sid].messages]
       ELSE [@ EXCEPT !.pc = "storeNew", !.session = <<>>]]
  /\ gRet' = IF readOk THEN NoRet
             ELSE [NoRet EXCEPT !.done = TRUE, !.answer = FixedAnswer(ErrorText),
                                !.sfail = TRUE, !.threw = TRUE]
  /\ Fails(~readOk)
  /\ UNCHANGED <<searchVars, filterVars, streamVars, unitVars, probeVars>>
  /\ UNCHANGED <<now, storeVars, responseCache, sessions, propertyLinkCache, started,
                 gWritten, gOverlap, gRecent>>

\* getOrCreateSession lines 642-646 with RedisService.getSession: the session is read;
\* a failed read is reported as no session
GetSession(p, readOk) ==
  LET s == sessions[req[p].sid]
  IN  /\ req[p].pc = "getSession"
      /\ req' = [req EXCEPT ![p] =
           IF readOk /\ s.exists
           THEN [@ EXCEPT !.pc = "search1", !.session = s.messages]
           ELSE [@ EXCEPT !.pc = "storeNew", !.session = <<>>, !.sfail = ~readOk]]
      /\ gRet' = NoRet
      /\ Fails(~readOk)
      /\ UNCHANGED <<searchVars, filterVars, streamVars, unitVars, probeVars>>
      /\ UNCHANGED <<now, storeVars, responseCache, sessions, propertyLinkCache, started,
                     gWritten, gOverlap, gRecent>>

\* getOrCreateSession lines 646-666: the new session is stored; when the store fails
\* the turn goes on with a session of its own
StoreNew(p, writeOk) ==
  /\ req[p].pc = "storeNew"
  /\ req' = [req EXCEPT ![p] = [@ EXCEPT !.pc = "search1", !.sfail = @ \/ ~writeOk]]
  /\ sessions' = IF writeOk
                 THEN [sessions EXCEPT ![req[p].sid] = [exists |-> TRUE, messages |-> <<>>]]
                 ELSE sessions
  /\ gRet' = NoRet
  /\ Fails(~writeOk)
  /\ UNCHANGED <<searchVars, filterVars, streamVars, unitVars, probeVars>>
  /\ UNCHANGED <<now, storeVars, responseCache, propertyLinkCache, started,
                 gWritten, gOverlap, gRecent>>

\* the faults a search of a chat turn is tried with: none, or the store is unreachable
ChatFaults == {<<"none", "none">>, <<"conn", "none">>}

\* lines 175-186: the search for the message, then the links of what it found, cached
\* one property after the other; a property without listing_urls raises (lines 396-402)
Searched(p, sr, bad) ==
  /\ propertyCache' = sr.h.propertyCache
  /\ cacheTimestamp' = sr.h.cacheTimestamp
  /\ langCache' = sr.lang
  /\ propertyLinkCache' = propertyLinkCache \cup
       {PropOf(sr.properties[i]).listing_id :
          i \in IF bad = 0 THEN 1..Len(sr.properties) ELSE 1..(bad - 1)}
  /\ IF bad = 0
     THEN /\ req' = [req EXCEPT ![p] =
               [@ EXCEPT !.pc = IF Len(sr.properties) > 0 THEN "generate" ELSE "search2",
                         !.props = sr.properties, !.searches = @ + 1]]
          /\ gRet' = NoRet
     ELSE /\ req' = [req EXCEPT ![p] = IdleReq]
          /\ gRet' = [NoRet EXCEPT !.done = TRUE, !.fresh = req[p].fresh,
                                   !.searches = req[p].searches + 1,
                                   !.answer = caught(LinkError), !.props = sr.properties,
                                   !.sfail = req[p].sfail, !.threw = TRUE]

SearchedFor(p, sr) == Searched(p, sr, FirstWithoutUrls(sr.properties))

Search1(p, f, qe) ==
  /\ req[p].pc = "search1"
  /\ SearchedFor(p, searchProperties([query |-> Messages[req[p].msg],
                                      filters |-> extractFilters(Messages[req[p].msg])],
                                     f[1], f[2], qe))
  /\ Fails(f # <<"none", "none">>)
  /\ UNCHANGED <<searchVars, filterVars, streamVars, unitVars, probeVars>>
  /\ UNCHANGED <<now, docs, responseCache, sessions, started, gWritten, gOverlap, gRecent>>

\* lines 188-206: nothing was found, so all properties are asked for; with none at all
\* the turn returns the fixed answer
SearchedAll(p, r, sr) ==
  /\ propertyCache' = sr.h.propertyCache
  /\ cacheTimestamp' = sr.h.cacheTimestamp
  /\ langCache' = sr.lang
  /\ IF Len(sr.properties) > 0
     THEN /\ req' = [req EXCEPT ![p] =
               [r EXCEPT !.pc = "generate", !.props = sr.properties, !.searches = @ + 1]]
          /\ gRet' = NoRet
     ELSE /\ req' = [req EXCEPT ![p] = IdleReq]
          /\ gRet' = [NoRet EXCEPT !.done = TRUE, !.fresh = r.fresh,
                                   !.searches = r.searches + 1,
                                   !.answer = FixedAnswer(NoPropertiesText),
                                   !.sfail = r.sfail]

Search2(p, f, qe) ==
  /\ req[p].pc = "search2"
  /\ SearchedAll(p, req[p],
                 searchProperties([query |-> T_star, filters |-> NoFilters],
                                  f[1], f[2], qe))
  /\ Fails(f # <<"none", "none">>)
  /\ UNCHANGED <<searchVars, filterVars, streamVars, unitVars, probeVars>>
  /\ UNCHANGED <<now, docs, responseCache, sessions, propertyLinkCache, started,
                 gWritten, gOverlap, gRecent>>

\* session.messages.push of lines 329-343
WithTurn(messages, turn, t) ==
  messages \o << [role |-> "user", turn |-> turn, timestamp |-> t],
                 [role |-> "assistant", turn |-> turn, timestamp |-> t] >>

\* lines 291-402: reading the links of the first two properties raises, and the fixed
\* text is returned with nothing cached and nothing stored
GenerateRaised(p, r, genOk) ==
  /\ req' = [req EXCEPT ![p] = IdleReq]
  /\ gRet' = [NoRet EXCEPT !.done = TRUE, !.fresh = r.fresh, !.searches = r.searches,
                           !.gens = 1, !.answer = caught(LinkError), !.props = r.props,
                           !.genFailed = ~genOk, !.sfail = r.sfail, !.threw = TRUE]
  /\ Fails(~genOk)
  /\ UNCHANGED <<responseCache, gRecent, gWritten, sessions>>

\* lines 326-394: the answer is cached, the two messages are pushed and the session is
\* stored without waiting
GenerateReturned(p, r, key, response, genOk, writeOk) ==
  /\ responseCache' = lruSet(lruSet(responseCache, key, response, now),
                             key, response, now)
  /\ gRecent' = Used(gRecent, key)
  /\ gWritten' = [gWritten EXCEPT ![key] =
       [written |-> TRUE, answer |-> response, at |-> now, hit |-> FALSE]]
  /\ sessions' = IF writeOk
                 THEN [sessions EXCEPT ![r.sid] =
                         [exists |-> TRUE, messages |-> WithTurn(r.session, r.turn, now)]]
                 ELSE sessions
  /\ req' = [req EXCEPT ![p] = IdleReq]
  /\ gRet' = [NoRet EXCEPT !.done = TRUE, !.fresh = r.fresh, !.searches = r.searches,
                           !.gens = 1, !.answer = response, !.props = r.props,
                           !.genFailed = ~genOk, !.sfail = r.sfail \/ ~writeOk]
  /\ Fails(~genOk \/ ~writeOk)

Generated(p, r, truncated, genOk, writeOk) ==
  IF FirstWithoutUrls(Take(truncated, 2)) # 0
  THEN writeOk /\ GenerateRaised(p, r, genOk)
  ELSE GenerateReturned(p, r, normalizeCacheKey(Messages[r.msg]),
                        AnswerOf(truncated, genOk, propertyLinkCache), genOk, writeOk)

\* lines 208-394: the generation call resolves or fails, the answer is built and cached,
\* the two messages are pushed and the session is stored without waiting
Generate(p, genOk, writeOk) ==
  /\ req[p].pc = "generate"
  /\ Generated(p, req[p], truncatePropertyData(req[p].props, MaxTokens), genOk, writeOk)
  /\ UNCHANGED <<searchVars, filterVars, streamVars, unitVars, probeVars>>
  /\ UNCHANGED <<now, storeVars, propertyLinkCache, started, gOverlap>>

\* time passes; the store drops the langcache entries whose EX has run out
Tick ==
  /\ now < MaxTime
  /\ now' = now + 1
  /\ langCache' = {e \in langCache : (now + 1 - e.setAt) < LangCacheEX}
  /\ gRet' = NoRet
  /\ UNCHANGED <<searchVars, filterVars, streamVars, unitVars, probeVars>>
  /\ UNCHANGED <<docs, propertyCache, cacheTimestamp, responseCache, sessions,
                 propertyLinkCache, req, started, gWritten, gOverlap, gRecent, spent,
                 gFaulted>>

Next ==
  \/ \E p \in Procs, sid \in SessionIds, m \in MsgIds : Start(p, sid, m)
  \/ \E p \in Procs, ok \in BOOLEAN : GetSession(p, ok)
  \/ \E p \in Procs, ok \in BOOLEAN : StoreNew(p, ok)
  \/ \E p \in Procs, f \in ChatFaults, qe \in QueryEmbeddings : Search1(p, f, qe)
  \/ \E p \in Procs, f \in ChatFaults, qe \in QueryEmbeddings : Search2(p, f, qe)
  \/ \E p \in Procs, genOk \in BOOLEAN, writeOk \in BOOLEAN : Generate(p, genOk, writeOk)
  \/ Tick

Spec == Init /\ [][Next]_vars

(***************************************************************************)
(* Properties of the chat turns.                                           *)
(***************************************************************************)
KeysOf(cache) == {cache[i].key : i \in 1..Len(cache)}

IsPrefix(a, b) == Len(a) <= Len(b) /\ SubSeq(b, 1, Len(a)) = a

\* C1 as claimed: once an answer for a normalized message has been written, every
\* later turn with that normalized message that starts less than RESP_TTL after the
\* write returns the cached answer and makes no search call and no generation call.
C1_AtMostOnceOriginal ==
  /\ \A p \in Procs : InFlight(p) => ~req[p].fresh
  /\ (gRet.done /\ gRet.fresh) =>
        (gRet.hit /\ gRet.same /\ gRet.searches = 0 /\ gRet.gens = 0)

\* C1 as amended: a turn that starts less than RESP_TTL after the last write of an
\* answer for its normalized message, while the cache still holds the entry (it has
\* not been evicted for capacity), returns the answer the cache holds and makes no
\* search call and no generation call.
C1_AtMostOnce ==
  /\ \A p \in Procs : (InFlight(p) /\ req[p].fresh) => ~req[p].held
  /\ (gRet.done /\ gRet.hit) => (gRet.same /\ gRet.searches = 0 /\ gRet.gens = 0)

\* a turn is answered from the cache while a turn that missed on the same normalized
\* message before the write is still in flight
C1_Witness ==
  /\ gRet.done /\ gRet.hit /\ gRet.fresh /\ gRet.same
  /\ \E p \in Procs :
       /\ InFlight(p)
       /\ gWritten[normalizeCacheKey(Messages[req[p].msg])].hit

\* C2 as claimed: after N completed turns issued one after another on a session id
\* the stored session holds 2N messages, user then assistant for each turn, with
\* non-decreasing timestamps.
C2_SessionCount ==
  \A s \in SessionIds :
    (~gOverlap[s] /\ \A p \in Procs : ~(InFlight(p) /\ req[p].sid = s)) =>
      LET m == sessions[s].messages
      IN  /\ Len(m) = 2 * started[s]
          /\ \A i \in 1..Len(m) : m[i].role = IF i % 2 = 1 THEN "user" ELSE "assistant"
          /\ \A i \in 1..(Len(m) - 1) :
               /\ m[i].timestamp <= m[i + 1].timestamp
               /\ (i % 2 = 1) => m[i].turn = m[i + 1].turn

\* C3 as claimed: while no call fails, the stored message list of a session at an
\* earlier time is a prefix of its list at any later time, for every interleaving of
\* overlapping turns.
C3_HistoryGrows ==
  [][~gFaulted' =>
       \A s \in SessionIds : IsPrefix(sessions[s].messages, sessions'[s].messages)]_vars

LeastRecent(cache) ==
  LET held == SelectSeq(gRecent, LAMBDA k : k \in KeysOf(cache))
  IN  IF held = <<>> THEN {} ELSE {Head(held)}

\* C5: the response cache never holds more than its capacity, and an insert that
\* overflows it evicts the least recently used entry.
C5_Capacity ==
  [][/\ Len(responseCache') <= CacheMax
     /\ (KeysOf(responseCache') \ KeysOf(responseCache) # {}) =>
          \/ KeysOf(responseCache) \subseteq KeysOf(responseCache')
          \/ KeysOf(responseCache) \ KeysOf(responseCache') = LeastRecent(responseCache)
    ]_vars

\* the cache is full and has evicted an entry that was written after one it still holds
C5_Witness ==
  /\ Len(responseCache) = CacheMax
  /\ \E k \in NormKeys, j \in KeysOf(responseCache) :
       /\ gWritten[k].written /\ k \notin KeysOf(responseCache)
       /\ gWritten[j].hit

\* the name of a city as text
CityText(city) == IF city = C_Portland THEN "Portland" ELSE "Gresham"

\* generateFallbackResponse of src/services/chatbot.ts; address.raw of a document of the
\* model is its city, and its unit is available now
generateFallbackResponse(properties) ==
  IF Len(properties) = 0 THEN NoPropertiesText
  ELSE "I found " \o ToString(Len(properties)) \o " properties available:\n\n**"
       \o ToString(PropOf(properties[1]).property_name) \o "**\n- **Address**: "
       \o CityText(PropOf(properties[1]).city) \o "\n- **Unit Details**: "
       \o ToString(PropOf(properties[1]).beds) \o " bed, "
       \o ToString(PropOf(properties[1]).baths) \o " bath, $"
       \o ToString(PropOf(properties[1]).rent) \o "/month\n- **Available**: now"
       \o "\n- **Pet Policy**: "
       \o (IF PropOf(properties[1]).pets_allowed = 1 THEN "Pet Friendly" ELSE "No Pets")
       \o "\n\nThis property is located in " \o CityText(PropOf(properties[1]).city)
       \o ". Please contact us for more details or to schedule a viewing."

\* C12 as claimed: when the generation call of a turn that found candidates fails, the
\* answer of the turn is the template built from the top candidate.
C12_GenerationFallback ==
  (gRet.done /\ ~gRet.hit /\ gRet.genFailed /\ ~gRet.threw) =>
     gRet.answer.text
       = generateFallbackResponse(truncatePropertyData(gRet.props, MaxTokens))

\* the fixed texts handleMessage returns, and the empty text it reads from the stream
\* the generation call resolved to
AnswerTexts == {"", TroubleText, NoPropertiesText, ErrorText}

ExpectedAnswer(r, linkCache) ==
  IF r.threw THEN FixedAnswer(ErrorText)
  ELSE IF r.gens = 0 THEN FixedAnswer(NoPropertiesText)
  ELSE AnswerOf(truncatePropertyData(r.props, MaxTokens), ~r.genFailed, linkCache)

\* C15: a turn whose session could not be read or written goes on to the search and
\* returns the answer that what it found and its generation call determine, as a turn
\* with a working session store does.
C15_SessionAbsorbed ==
  (gRet.done /\ ~gRet.hit /\ gRet.sfail) =>
     /\ gRet.searches >= 1
     /\ gRet.answer = ExpectedAnswer(gRet, propertyLinkCache)

\* the session could not be read or written and the turn returned a generated answer
\* with the links of what it found
C15_Witness ==
  /\ gRet.done /\ gRet.sfail /\ gRet.gens = 1 /\ ~gRet.genFailed
  /\ gRet.answer.links # <<>>

(***************************************************************************)
(* RedisService.searchProperties called directly, by two callers at a      *)
(* time, while the catalog is loaded and removed.  A call is two steps:    *)
(* up to the result-cache read, and the search with the cache write.       *)
(***************************************************************************)
\* last minute of the clock of the search behaviours
MaxSearchTime == 5

Searching(s) == call[s].pc # "idle"

\* history: the lists written for fp less than EX ago
LiveLists(fp) == [i \in 1..Len(gLang[fp]) |-> gLang[fp][i].list]

Returns(qi, properties, cacheHit, fault, failed, enumerated, embedded, live, lists) ==
  [done |-> TRUE, qi |-> qi, properties |-> properties, cacheHit |-> cacheHit,
   fault |-> fault, failed |-> failed, enumerated |-> enumerated, embedded |-> embedded,
   live |-> live, lists |-> lists, exact |-> <<>>]

\* searchProperties lines 244-261: the connection is ensured and the result cache is
\* read; a failure of either is caught (lines 284-292), a hit returns the cached list
Begun(s, qi, bfault, hit, lists, cost) ==
  /\ call[s].pc = "idle"
  /\ \A q \in Procs : q < s => Searching(q)
  /\ spent + cost <= MaxEffort
  /\ spent' = spent + cost
  /\ IF bfault # "none"
     THEN /\ gSearch' = Returns(qi, <<>>, FALSE, bfault, TRUE, FALSE, FALSE,
                                lists # <<>>, lists)
          /\ UNCHANGED call
     ELSE IF hit # {}
     THEN /\ gSearch' = Returns(qi, (CHOOSE e \in hit : TRUE).ret, TRUE, "none", FALSE,
                                FALSE, FALSE, lists # <<>>, lists)
          /\ UNCHANGED call
     ELSE /\ call' = [call EXCEPT ![s] =
               [pc |-> "compute", qi |-> qi, live |-> lists # <<>>, lists |-> lists]]
          /\ gSearch' = NoSearch

BeginCost(bfault, hit) ==
    (IF bfault = "none" THEN 1 ELSE 1 + FaultCost)
  + (IF hit = {} /\ \E q \in Procs : Searching(q) THEN 1 ELSE 0)

BegunWith(s, qi, bfault, hit, lists) ==
  Begun(s, qi, bfault, hit, lists, BeginCost(bfault, hit))

BegunFor(s, qi, bfault, fp) ==
  BegunWith(s, qi, bfault, LangEntries(langCache, fp, now), LiveLists(fp))

SearchBegin(s, qi, bfault) ==
  /\ BegunFor(s, qi, bfault, getCacheKey(SearchQueries[qi]))
  /\ UNCHANGED <<now, storeVars, gLang, chatVars, filterVars, streamVars, unitVars, probeVars>>

\* searchProperties lines 263-292: the search runs, its result is written to the result
\* cache with EX 300 and returned; a failure that escapes the search, or of the write,
\* is caught
Computed(s, fp, r, cfault, e) ==
  /\ propertyCache' = r.h.propertyCache
  /\ cacheTimestamp' = r.h.cacheTimestamp
  /\ langCache' = IF r.threw THEN langCache ELSE LangSet(langCache, fp, r.ret, now)
  /\ gLang' = IF r.threw THEN gLang
              ELSE [gLang EXCEPT ![fp] = Append(@, [list |-> r.ret, at |-> now])]
  /\ call' = [call EXCEPT ![s] = IdleCall]
  /\ gSearch' = [Returns(call[s].qi, r.ret, FALSE, cfault, r.failed, r.enumerated,
                         r.embedded, call[s].live, call[s].lists)
                   EXCEPT !.exact = e.ret]

SearchCompute(s, cfault, qe) ==
  /\ call[s].pc = "compute"
  /\ spent + (IF cfault = "none" THEN 0 ELSE FaultCost) <= MaxEffort
  /\ spent' = spent + (IF cfault = "none" THEN 0 ELSE FaultCost)
  /\ Computed(s, getCacheKey(SearchQueries[call[s].qi]),
              ComputeSearch([docs |-> docs, now |-> now, fault |-> cfault, qe |-> qe],
                            CacheNow, SearchQueries[call[s].qi]),
              cfault,
              exactSearch([docs |-> docs, now |-> now, fault |-> cfault, qe |-> qe],
                          CacheNow, SearchQueries[call[s].qi]))
  /\ UNCHANGED <<now, docs, chatVars, filterVars, streamVars, unitVars, probeVars>>

\* the sample data loaded
SampleData == {1, 2, 3, 4}

\* what a change of the catalog costs a behaviour
CatalogCost == 2

\* loadSampleData lines 643-693: the properties are stored, with their embeddings
LoadSampleData ==
  /\ ~(SampleData \subseteq docs)
  /\ spent + CatalogCost <= MaxEffort
  /\ spent' = spent + CatalogCost
  /\ docs' = docs \cup SampleData
  /\ gSearch' = NoSearch
  /\ UNCHANGED <<now, propertyCache, cacheTimestamp, langCache, call, gLang,
                 chatVars, filterVars, streamVars, unitVars, probeVars>>

\* removeSampleData lines 704-727: every property and embedding is deleted
RemoveSampleData ==
  /\ docs # {}
  /\ spent + CatalogCost <= MaxEffort
  /\ spent' = spent + CatalogCost
  /\ docs' = {}
  /\ gSearch' = NoSearch
  /\ UNCHANGED <<now, propertyCache, cacheTimestamp, langCache, call, gLang,
                 chatVars, filterVars, streamVars, unitVars, probeVars>>

\* time passes; the store drops the langcache entries whose EX has run out
Elapse ==
  /\ now < MaxSearchTime
  /\ now' = now + 1
  /\ langCache' = {e \in langCache : (now + 1 - e.setAt) < LangCacheEX}
  /\ gLang' = [fp \in Fingerprints |->
                 SelectSeq(gLang[fp], LAMBDA w : (now + 1 - w.at) < LangCacheEX)]
  /\ gSearch' = NoSearch
  /\ UNCHANGED <<docs, propertyCache, cacheTimestamp, call, spent, chatVars, filterVars, streamVars, unitVars, probeVars>>

InitSearch ==
  /\ docs \in Catalogs
  /\ InitStore
  /\ InitChatVars
  /\ InitSearchVars
  /\ InitFilterVars
  /\ InitStreamVars
  /\ InitUnitVars

NextSearch ==
  \/ \E s \in Procs, qi \in QueryIds, f \in BeginFaults : SearchBegin(s, qi, f)
  \/ \E s \in Procs, f \in ComputeFaults, qe \in QueryEmbeddings : SearchCompute(s, f, qe)
  \/ LoadSampleData
  \/ RemoveSampleData
  \/ Elapse

SpecSearch == InitSearch /\ [][NextSearch]_vars

(***************************************************************************)
(* Properties of searchProperties.                                         *)
(***************************************************************************)
FingerprintOf(qi) == getCacheKey(SearchQueries[qi])

\* a search that found no failing store call has left its list in the result cache
WrittenBeforeReturn ==
  (gSearch.done /\ ~gSearch.cacheHit /\ ~gSearch.failed) =>
     \E e \in langCache : /\ e.fp = FingerprintOf(gSearch.qi)
                          /\ e.ret = gSearch.properties
                          /\ e.setAt = now

\* C6 as claimed: once a call has completed without error, every call with the same
\* fingerprint made less than EX after it returns cacheHit with the same list, without
\* enumerating the properties and without an embedding call; a fresh result is in the
\* result cache before the call returns.
C6_ResultCacheOriginal ==
  /\ (gSearch.done /\ gSearch.live) =>
        /\ gSearch.cacheHit
        /\ \A i \in 1..Len(gSearch.lists) : gSearch.properties = gSearch.lists[i]
        /\ ~gSearch.enumerated /\ ~gSearch.embedded
  /\ WrittenBeforeReturn

\* C6 as amended: once a call has completed without error, every call with the same
\* fingerprint made less than EX after the last write for it, and whose own connection
\* and cache read succeed, returns cacheHit with the list last written, without
\* enumerating the properties and without an embedding call; a fresh result is in the
\* result cache before the call returns.
C6_ResultCache ==
  /\ (gSearch.done /\ gSearch.live /\ gSearch.fault \notin {"conn", "cacheGet"}) =>
        /\ gSearch.cacheHit
        /\ gSearch.properties = gSearch.lists[Len(gSearch.lists)]
        /\ ~gSearch.enumerated /\ ~gSearch.embedded
  /\ WrittenBeforeReturn

\* a call is served a list from the result cache after the catalog has been removed
C6_Witness ==
  /\ gSearch.done /\ gSearch.cacheHit /\ gSearch.live
  /\ gSearch.properties # <<>>
  /\ docs = {}

\* C7: every SearchResult, computed or served from the result cache, holds at most
\* ResultCap candidates and no two with the same listing id.
C7_CapAndDistinct ==
  gSearch.done =>
    /\ Len(gSearch.properties) <= ResultCap
    /\ \A i, j \in 1..Len(gSearch.properties) :
         i # j => PropOf(gSearch.properties[i]).listing_id
                  # PropOf(gSearch.properties[j]).listing_id

\* a list cut to ResultCap is served from the result cache
C7_Witness ==
  /\ gSearch.done /\ gSearch.cacheHit
  /\ Len(gSearch.properties) = ResultCap
  /\ Cardinality(docs) > ResultCap

\* C9 as claimed: no SearchResult holds a record without a listing id or without a
\* property name.
C9_NoCorruptRecords ==
  gSearch.done =>
    \A i \in 1..Len(gSearch.properties) :
      /\ PropOf(gSearch.properties[i]).listing_id # Missing
      /\ PropOf(gSearch.properties[i]).property_name # Missing

C11_EmbeddingFailure ==
  (gSearch.done /\ gSearch.fault = "embedApi") =>
     (gSearch.properties = gSearch.exact /\ ~gSearch.failed)

\* the embedding call was made for a catalog too small for the exact search alone, and
\* it failed
C11_Witness ==
  /\ gSearch.done /\ gSearch.fault = "embedApi" /\ gSearch.embedded
  /\ gSearch.properties # <<>>
  /\ Len(gSearch.exact) < SupplementThreshold

\* C30: the response cache holds no answer that was produced after the generation call
\* failed, and no such answer is served from it
C30_OnlySuccessCached ==
  /\ \A i \in 1..Len(responseCache) : responseCache[i].response.text # TroubleText
  /\ (gRet.done /\ gRet.hit) => gRet.answer.text # TroubleText

\* C33: a turn whose generation call succeeded returns a text that is not empty
C33_GeneratedTextReturned ==
  (gRet.done /\ gRet.gens = 1 /\ ~gRet.genFailed /\ ~gRet.threw) => gRet.answer.text # ""

\* the documents with an embedding that a list does not hold
NotIn(list) ==
  {k \in docs : /\ EmbeddingOf(k) # <<>>
                /\ PropOf(k).has_urls
                /\ \A i \in 1..Len(list) : PropOf(list[i]).listing_id # PropOf(k).listing_id}

\* C25: when a search with filters computes its result without a failure and its exact
\* search finds fewer than SupplementThreshold candidates, the result is what the exact
\* search found followed by further candidates, if the catalog has any with an embedding
C25_Supplementation ==
  (/\ gSearch.done /\ ~gSearch.cacheHit /\ ~gSearch.failed /\ gSearch.fault = "none"
   /\ FilterKeyCount(SearchQueries[gSearch.qi].filters) > 0
   /\ Len(gSearch.exact) < SupplementThreshold
   /\ NotIn(gSearch.exact) # {}) =>
      /\ Len(gSearch.properties) > Len(gSearch.exact)
      /\ Take(gSearch.properties, Len(gSearch.exact)) = gSearch.exact

(***************************************************************************)
(* RedisService.matchesFilters applied to one record and one filter set.   *)
(***************************************************************************)
InitFilters ==
  /\ docs = {}
  /\ InitStore
  /\ InitChatVars
  /\ InitSearchVars
  /\ mfArgs \in [property : Keys, filters : FilterInputs]
  /\ mfResult = NoResult
  /\ InitStreamVars
  /\ InitUnitVars

ApplyMatchesFilters ==
  /\ ~mfResult.applied
  /\ mfResult' = [applied |-> TRUE,
                  value |-> matchesFilters(PropOf(mfArgs.property), mfArgs.filters)]
  /\ UNCHANGED <<now, storeVars, spent, chatVars, searchVars, mfArgs, streamVars, unitVars, probeVars>>

NextFilters == ApplyMatchesFilters

SpecFilters == InitFilters /\ [][NextFilters]_vars

\* every filter that is present holds for the record
EveryPresentFilterHolds(property, filters) ==
  /\ (filters.beds # Undef => property.beds = filters.beds)
  /\ (filters.baths # Undef => property.baths = filters.baths)
  /\ filters.hasRent =>
       /\ (filters.rentMin # Undef => property.rent >= filters.rentMin)
       /\ (filters.rentMax # Undef => property.rent <= filters.rentMax)
  /\ (filters.city # <<>> =>
        includes(toLowerCase(property.city), toLowerCase(filters.city)))
  /\ (filters.pets_allowed # Undef => property.pets_allowed = filters.pets_allowed)
  /\ filters.hasSqft =>
       /\ (filters.sqftMin # Undef => property.square_feet >= filters.sqftMin)
       /\ (filters.sqftMax # Undef => property.square_feet <= filters.sqftMax)

\* C8 as claimed: matchesFilters is true exactly when every filter that is present
\* holds for the record; a beds filter of any value, 0 included, excludes the records
\* with another bed count.
C8_FilterPredicate ==
  mfResult.applied =>
    (mfResult.value <=> EveryPresentFilterHolds(PropOf(mfArgs.property), mfArgs.filters))

(***************************************************************************)
(* ChatbotService.handleMessageStream: the text of the answer.  The text   *)
(* is a sequence of UTF-16 code units: one-character strings, and the two  *)
(* halves of a character outside the basic plane.                          *)
(***************************************************************************)
\* the code units of a text
Units(str) == [i \in 1..Len(str) |-> SubSeq(str, i, i)]

\* the two code units of a character outside the basic plane
HighSurrogate == "HI"

LowSurrogate == "LO"

\* the character the two code units stand for, and U+FFFD
Astral == "U+1F600"

Replacement == "U+FFFD"

\* new TextEncoder().encode(chunk): the characters whose UTF-8 bytes are written; a
\* surrogate without its other half is written as U+FFFD
encodeUnit(chunk, i) ==
  IF chunk[i] = HighSurrogate
  THEN IF i < Len(chunk) /\ chunk[i + 1] = LowSurrogate THEN Astral ELSE Replacement
  ELSE IF chunk[i] = LowSurrogate
  THEN IF i > 1 /\ chunk[i - 1] = HighSurrogate THEN "" ELSE Replacement
  ELSE chunk[i]

IsWritten(u) == u # ""

encode(chunk) == SelectSeq([i \in 1..Len(chunk) |-> encodeUnit(chunk, i)], IsWritten)

\* the alternatives of greetingRegex, line 488
greetingWords ==
  {Units("hello"), Units("hi"), Units("hey"), Units("greetings"), Units("good morning"),
   Units("good afternoon"), Units("good evening")}

\* greetingRegex.test(t): /^(hello|hi|...)[!,. ]*$/i
greetingRegexTest(t) ==
  \E w \in greetingWords :
    /\ MatchAt(toLowerCase(t), w, 1)
    /\ \A i \in (Len(w) + 1)..Len(t) : t[i] \in {"!", ",", ".", " "}

\* number of characters of the scripted greeting in the model (190 in the source)
GreetingLen == 3

\* greetingResponse, line 490
greetingResponse ==
  Take(Units("Hi there! I'm your Lincoln Court assistant. I can help you find available apartments, answer questions about our properties, or guide you to schedule a tour or apply. What would you like to do today?"),
       GreetingLen)

\* chunkSize, line 583
ChunkSize == 10

\* cachePropertyLinks lines 34-44: the three links of the property with listing id k;
\* the document has no unit number, and its urls are /v/k, /t/k and /a/k
labelOf(k) == IF PropOf(k).property_name = Missing THEN "" ELSE ToString(k)

linksOf(k) ==
  [view  |-> Units("[View Details for " \o labelOf(k) \o "](/v/" \o ToString(k) \o ")"),
   tour  |-> Units("[Schedule a tour for " \o labelOf(k) \o "](/t/" \o ToString(k) \o ")"),
   apply |-> Units("[Apply now for " \o labelOf(k) \o "](/a/" \o ToString(k) \o ")")]

\* the first position from `from` on where s holds c, 0 when there is none
FirstAt(s, c, from) ==
  IF \E i \in from..Len(s) : s[i] = c
  THEN Least({i \in from..Len(s) : s[i] = c}) ELSE 0

\* the markup opened at `after - 1` is closed by "]" at j: "(" follows, then ")"
LinkCloses(s, j) ==
  IF j = 0 \/ j + 1 > Len(s) \/ s[j + 1] # "(" THEN 0 ELSE FirstAt(s, ")", j + 2)

\* where a match of \[prefix[^\]]*\]\([^)]*\) that begins at i ends, 0 when none does
LinkEnd(s, prefix, i) ==
  IF MatchAt(s, prefix, i) THEN LinkCloses(s, FirstAt(s, "]", i + Len(prefix))) ELSE 0

\* the first position from i on where the pattern matches, 0 when there is none
nextMatch(s, prefix, i) ==
  IF \E m \in i..Len(s) : LinkEnd(s, prefix, m) # 0
  THEN Least({m \in i..Len(s) : LinkEnd(s, prefix, m) # 0}) ELSE 0

\* fixedResponse.replace(new RegExp(..., 'g'), link), from position i on: the text up
\* to the next match m, the link in place of the match, and so on after it
RECURSIVE replaceFrom(_, _, _, _)
replaceAt(s, prefix, link, i, m) ==
  IF m = 0 THEN Slice(s, i, Len(s))
  ELSE Slice(s, i, m - 1) \o link \o replaceFrom(s, prefix, link, LinkEnd(s, prefix, m) + 1)

replaceFrom(s, prefix, link, i) == replaceAt(s, prefix, link, i, nextMatch(s, prefix, i))

\* lines 544-546: the three replacements with the links of one property
replaceLinks(s, links) ==
  replaceFrom(replaceFrom(replaceFrom(s, Units("[View Details"), links.view, 1),
                          Units("[Schedule a tour"), links.tour, 1),
              Units("[Apply now"), links.apply, 1)

\* lines 540-550: the links of the first two properties replace the markup
RECURSIVE replaceEach(_, _, _)
replaceEach(s, properties, linkCache) ==
  IF properties = <<>> THEN s
  ELSE replaceEach(IF PropOf(properties[1]).listing_id \in linkCache
                   THEN replaceLinks(s, linksOf(PropOf(properties[1]).listing_id))
                   ELSE s,
                   Tail(properties), linkCache)

\* lines 552-565: without link markup in the text the links of the top property follow it
appendLinks(fixedResponse, top, linkCache) ==
  IF /\ ~includes(fixedResponse, Units("[View Details]"))
     /\ ~includes(fixedResponse, Units("[Schedule a tour]"))
     /\ ~includes(fixedResponse, Units("[Apply now]"))
     /\ top \in linkCache
  THEN fixedResponse \o Units("\n\n") \o linksOf(top).view \o Units(" | ")
       \o linksOf(top).tour \o Units(" | ") \o linksOf(top).apply
  ELSE fixedResponse

\* lines 532-570: the answer after the links; linkCache is the cache after line 537
fixLinks(response, truncated, linkCache) ==
  IF Len(truncated) = 0 THEN response
  ELSE appendLinks(replaceEach(response, Take(truncated, 2), linkCache),
                   PropOf(truncated[1]).listing_id, linkCache)

\* safeResponse, line 580
safeResponse(response) ==
  IF response = <<>>
  THEN Units("I'm having trouble responding right now. Please try again.")
  ELSE response

(***************************************************************************)
(* POST /api/chat/stream: ChatbotService.handleMessageStream, the          *)
(* ReadableStream it returns and the reader of the response body.  One     *)
(* streaming turn at a time; the clock stands still.                       *)
(***************************************************************************)
\* the user messages of the streaming turns: "Hi!", "all", "2 bed"
StreamMessages ==
  << Units("Hi!"), Units("all"), Units("2 bed") >>

StreamMsgIds == 1..Len(StreamMessages)

\* the catalogs a behaviour of streaming turns can start from
StreamCatalogs == {{}, {1}, {1, 2}, {NoUrlsKey, 1, 2}}

\* what the generation service may answer: nothing, a text whose character outside the
\* basic plane lies across the end of the first chunk, one where it does not, and a
\* text with link markup
GeneratedTexts ==
  << <<>>,
     Units("Nice home") \o <<HighSurrogate, LowSurrogate>>,
     Units("Great pick") \o <<HighSurrogate, LowSurrogate>>,
     Units("[Apply now](x)") >>

\* the outcomes of a generation call: 0 when every attempt fails, else the text
GenOutcomes == 0..Len(GeneratedTexts)

\* a streaming turn can start when the one before is over
StreamOver ==
  \/ st.pc \in {"idle", "raised"}
  \/ st.pc = "streaming" /\ st.producer # "running" /\ (st.done \/ st.cancelled)

\* what a step of a streaming turn spends
StreamSpends(cost) ==
  /\ spent + cost <= MaxEffort
  /\ spent' = spent + cost

\* lines 405-412: the request arrives
StreamStart(sid, m) ==
  /\ StreamOver
  /\ StreamSpends(1)
  /\ st' = [IdleStream EXCEPT !.pc = "getSession", !.sid = sid, !.msg = m]
  /\ UNCHANGED <<now, storeVars, sessions, propertyLinkCache, openaiCache>>
  /\ UNCHANGED <<turnVars, searchVars, filterVars, unitVars, probeVars>>

\* line 415, getOrCreateSession lines 642-646: the session is read
StreamGetSession(readOk) ==
  /\ st.pc = "getSession"
  /\ StreamSpends(IF readOk THEN 0 ELSE FaultCost)
  /\ st' = [st EXCEPT !.pc = IF readOk /\ sessions[st.sid].exists
                             THEN "search1" ELSE "storeNew"]
  /\ UNCHANGED <<now, storeVars, sessions, propertyLinkCache, openaiCache>>
  /\ UNCHANGED <<turnVars, searchVars, filterVars, unitVars, probeVars>>

\* getOrCreateSession lines 646-666: the new session is stored
StreamStoreNew(writeOk) ==
  /\ st.pc = "storeNew"
  /\ StreamSpends(IF writeOk THEN 0 ELSE FaultCost)
  /\ st' = [st EXCEPT !.pc = "search1"]
  /\ sessions' = IF writeOk
                 THEN [sessions EXCEPT ![st.sid] = [exists |-> TRUE, messages |-> <<>>]]
                 ELSE sessions
  /\ UNCHANGED <<now, storeVars, propertyLinkCache, openaiCache>>
  /\ UNCHANGED <<turnVars, searchVars, filterVars, unitVars, probeVars>>

\* lines 418-431: the search for the message, then the links of what it found; a
\* property without listing_urls raises, and handleMessageStream raises (lines 596-599)
StreamSearched(sr, bad) ==
  /\ propertyCache' = sr.h.propertyCache
  /\ cacheTimestamp' = sr.h.cacheTimestamp
  /\ langCache' = sr.lang
  /\ propertyLinkCache' = propertyLinkCache \cup
       {PropOf(sr.properties[i]).listing_id :
          i \in IF bad = 0 THEN 1..Len(sr.properties) ELSE 1..(bad - 1)}
  /\ st' = [st EXCEPT !.pc = IF bad # 0 THEN "raised"
                             ELSE IF Len(sr.properties) > 0 THEN "generate"
                             ELSE "search2",
                      !.props = sr.properties, !.searches = @ + 1]

StreamSearchedFor(sr) == StreamSearched(sr, FirstWithoutUrls(sr.properties))

StreamSearch1(f, qe) ==
  /\ st.pc = "search1"
  /\ StreamSpends(IF f = <<"none", "none">> THEN 0 ELSE FaultCost)
  /\ StreamSearchedFor(searchProperties(
       [query |-> StreamMessages[st.msg],
        filters |-> extractFilters(StreamMessages[st.msg])], f[1], f[2], qe))
  /\ UNCHANGED <<now, docs, sessions, openaiCache>>
  /\ UNCHANGED <<turnVars, searchVars, filterVars, unitVars, probeVars>>

\* lines 433-446: nothing was found, so all properties are asked for
StreamSearchedAll(sr) ==
  /\ propertyCache' = sr.h.propertyCache
  /\ cacheTimestamp' = sr.h.cacheTimestamp
  /\ langCache' = sr.lang
  /\ st' = [st EXCEPT !.pc = "generate", !.props = sr.properties, !.searches = @ + 1]

StreamSearch2(f, qe) ==
  /\ st.pc = "search2"
  /\ StreamSpends(IF f = <<"none", "none">> THEN 0 ELSE FaultCost)
  /\ StreamSearchedAll(searchProperties([query |-> T_star, filters |-> NoFilters],
                                        f[1], f[2], qe))
  /\ UNCHANGED <<now, docs, sessions, propertyLinkCache, openaiCache>>
  /\ UNCHANGED <<turnVars, searchVars, filterVars, unitVars, probeVars>>

\* the chunk the loop of start() is at: safeResponse.slice(i, i + chunkSize)
nextChunk(t) ==
  Slice(t.answer, t.i + 1, IF t.i + t.size < Len(t.answer) THEN t.i + t.size
                           ELSE Len(t.answer))

\* controller.enqueue(new TextEncoder().encode(chunk)) and the step of the loop
enqueued(t) ==
  [t EXCEPT !.queue = Append(@, encode(nextChunk(t))),
            !.sizes = Append(@, Len(nextChunk(t))),
            !.i = @ + t.size]

\* new ReadableStream({ start }): start runs up to its first timer, so the first chunk
\* is in the queue when the stream is returned
opened(t, answer, size, greeting) ==
  enqueued([t EXCEPT !.pc = "streaming", !.answer = answer, !.size = size,
                     !.greeting = greeting, !.producer = "running"])

\* OpenAIService.chat lines 64-73: the text cached for the prompt; an empty text does
\* not count
cachedContent(cache, key) == {e \in cache : e.key = key /\ e.content # <<>>}

\* OpenAIService.chat lines 103-105
cacheContent(cache, key, content) ==
  {e \in cache : e.key # key} \cup {[key |-> key, content |-> content]}

\* lines 535-538: with an empty link cache the links of the properties sent are cached,
\* up to the first one without listing_urls
linksBefore(truncated, linkCache) ==
  IF linkCache # {} \/ Len(truncated) = 0 THEN linkCache
  ELSE {PropOf(truncated[i]).listing_id :
          i \in IF FirstWithoutUrls(truncated) = 0 THEN 1..Len(truncated)
                ELSE 1..(FirstWithoutUrls(truncated) - 1)}

\* lines 532-550: caching the links, or reading those of the first two properties, raises
linksRaise(truncated, linkCache) ==
  \/ linkCache = {} /\ FirstWithoutUrls(truncated) # 0
  \/ FirstWithoutUrls(Take(truncated, 2)) # 0

\* lines 488-505: the scripted greeting is streamed one character at a time
StreamGreeted ==
  /\ st' = opened(st, greetingResponse, 1, TRUE)
  /\ UNCHANGED <<spent, propertyLinkCache, openaiCache>>

\* lines 507-594: the generation call has resolved to `response` (or failed), the links
\* are put in and the stream of the answer is returned
StreamAnswered(truncated, key, hit, g, response) ==
  /\ StreamSpends(IF hit = {} /\ g = 0 THEN FaultCost ELSE 0)
  /\ openaiCache' = IF hit = {} /\ g # 0
                    THEN cacheContent(openaiCache, key, response) ELSE openaiCache
  /\ propertyLinkCache' = linksBefore(truncated, propertyLinkCache)
  /\ st' = IF linksRaise(truncated, propertyLinkCache)
           THEN [st EXCEPT !.pc = "raised", !.gens = @ + (IF hit = {} THEN 1 ELSE 0)]
           ELSE opened([st EXCEPT !.gens = @ + (IF hit = {} THEN 1 ELSE 0)],
                       safeResponse(fixLinks(response, truncated,
                                             linksBefore(truncated, propertyLinkCache))),
                       ChunkSize, FALSE)

\* OpenAIService.chat(messages, false) lines 63-116, from handleMessageStream line 510
StreamChat(truncated, key, hit, g) ==
  StreamAnswered(truncated, key, hit, g,
                 IF hit # {} THEN (CHOOSE e \in hit : TRUE).content
                 ELSE IF g = 0 THEN Units(TroubleText)
                 ELSE GeneratedTexts[g])

StreamPrompted(truncated, key, g) ==
  StreamChat(truncated, key, cachedContent(openaiCache, key), g)

\* lines 449-594: the prompt is built; a greeting is answered by the script, any other
\* message by the generation service
StreamGenerate(g) ==
  /\ st.pc = "generate"
  /\ IF greetingRegexTest(trim(StreamMessages[st.msg]))
     THEN g = 0 /\ StreamGreeted
     ELSE StreamPrompted(truncatePropertyData(st.props, MaxTokens),
                         <<st.msg, truncatePropertyData(st.props, MaxTokens)>>, g)
  /\ UNCHANGED <<now, storeVars, sessions>>
  /\ UNCHANGED <<turnVars, searchVars, filterVars, unitVars, probeVars>>

\* variant: the stream is closed while chunks are still to come
StreamEmit_closesEarly ==
  /\ st.pc = "streaming"
  /\ st.producer = "running"
  /\ st' = IF st.cancelled THEN [st EXCEPT !.producer = "stopped"]
           ELSE IF st.i < Len(st.answer)
           THEN [enqueued(st) EXCEPT !.closeRequested = TRUE]
           ELSE [st EXCEPT !.producer = "closed", !.closeRequested = TRUE]
  /\ UNCHANGED <<now, storeVars, spent, sessions, propertyLinkCache, openaiCache>>
  /\ UNCHANGED <<turnVars, searchVars, filterVars, unitVars, probeVars>>

\* the loop of start() after its timer, lines 495-503 and 584-591: the next chunk is
\* enqueued, or the stream is closed; on a cancelled stream either call raises and
\* start() ends
StreamEmit ==
  /\ st.pc = "streaming"
  /\ st.producer = "running"
  /\ st' = IF st.cancelled THEN [st EXCEPT !.producer = "stopped"]
           ELSE IF st.i < Len(st.answer) THEN enqueued(st)
           ELSE [st EXCEPT !.producer = "closed", !.closeRequested = TRUE]
  /\ UNCHANGED <<now, storeVars, spent, sessions, propertyLinkCache, openaiCache>>
  /\ UNCHANGED <<turnVars, searchVars, filterVars, unitVars, probeVars>>

\* the reader of the response body takes the next chunk
ConsumerRead ==
  /\ st.pc = "streaming"
  /\ ~st.cancelled
  /\ st.queue # <<>>
  /\ st' = [st EXCEPT !.queue = Tail(@), !.delivered = Append(@, Head(st.queue)),
                      !.late = @ + (IF st.done THEN 1 ELSE 0)]
  /\ UNCHANGED <<now, storeVars, spent, sessions, propertyLinkCache, openaiCache>>
  /\ UNCHANGED <<turnVars, searchVars, filterVars, unitVars, probeVars>>

\* the reader is told the stream has ended: the queue is empty and close was called
ConsumerEnd ==
  /\ st.pc = "streaming"
  /\ ~st.cancelled /\ ~st.done
  /\ st.queue = <<>> /\ st.closeRequested
  /\ st' = [st EXCEPT !.done = TRUE]
  /\ UNCHANGED <<now, storeVars, spent, sessions, propertyLinkCache, openaiCache>>
  /\ UNCHANGED <<turnVars, searchVars, filterVars, unitVars, probeVars>>

\* the reader cancels (the client has gone): the stream is closed and its queue dropped
ConsumerCancel ==
  /\ st.pc = "streaming"
  /\ ~st.cancelled /\ ~st.done
  /\ st' = [st EXCEPT !.cancelled = TRUE, !.queue = <<>>]
  /\ UNCHANGED <<now, storeVars, spent, sessions, propertyLinkCache, openaiCache>>
  /\ UNCHANGED <<turnVars, searchVars, filterVars, unitVars, probeVars>>

InitStream ==
  /\ docs \in StreamCatalogs
  /\ InitStore
  /\ InitChatVars
  /\ InitSearchVars
  /\ InitFilterVars
  /\ InitStreamVars
  /\ InitUnitVars

NextStream ==
  \/ \E sid \in SessionIds, m \in StreamMsgIds : StreamStart(sid, m)
  \/ \E ok \in BOOLEAN : StreamGetSession(ok)
  \/ \E ok \in BOOLEAN : StreamStoreNew(ok)
  \/ \E f \in ChatFaults, qe \in QueryEmbeddings : StreamSearch1(f, qe)
  \/ \E f \in ChatFaults, qe \in QueryEmbeddings : StreamSearch2(f, qe)
  \/ \E g \in GenOutcomes : StreamGenerate(g)
  \/ StreamEmit
  \/ ConsumerRead
  \/ ConsumerEnd
  \/ ConsumerCancel

SpecStream == InitStream /\ [][NextStream]_vars

(***************************************************************************)
(* POST /chat/stream of src/index.ts: handleMessageStream of               *)
(* src/services/chatbot.ts returns the stream of the generation call, and  *)
(* the route reads it and writes server-sent events to the response body.  *)
(***************************************************************************)
\* the streams the generation service may answer with, as the content of their deltas;
\* the first delta (the role) and the last one (the finish reason) have no content
SseStreams ==
  << <<"", "Nice", " home", "">>,
     <<"", "Yes", "", ".", "">> >>

\* the catalogs a request is served from
SseCatalogs == {{}, {1, 2}}

\* the outcomes of openai.chatStream: 0 when every attempt fails, else the stream
SseOutcomes == 0..Len(SseStreams)

\* a request can start when the one before is over
SseOver ==
  \/ st.pc \in {"idle", "failed"}
  \/ st.pc = "streaming" /\ st.producer \in {"closed", "stopped"}
                         /\ (st.done \/ st.cancelled)

\* index.ts lines 183-186: `data: {"content": ..., "done": false}`
contentEvent(content) == [content |-> content, done |-> FALSE, fullResponse |-> ""]

\* index.ts line 195: `data: {"content": "", "done": true, "fullResponse": ...}`
completionEvent(full) == [content |-> "", done |-> TRUE, fullResponse |-> full]

\* index.ts line 197: `data: [DONE]`
DoneEvent == "[DONE]"

\* chatbot.ts lines 443-468: the session is read, and stored when there is none
sseSessions(sid, readOk, writeOk) ==
  IF readOk /\ ~sessions[sid].exists /\ writeOk
  THEN [sessions EXCEPT ![sid] = [exists |-> TRUE, messages |-> <<>>]]
  ELSE sessions

\* chatbot.ts lines 346-352 and 395, index.ts lines 174-228: the search has returned sr
\* and openai.chatStream the stream g; the route returns 500 when there is none, else
\* the response whose body start() is going to fill
SseSearched(sid, m, sr, g) ==
  /\ propertyCache' = sr.h.propertyCache
  /\ cacheTimestamp' = sr.h.cacheTimestamp
  /\ langCache' = sr.lang
  /\ st' = IF g = 0
           THEN [IdleStream EXCEPT !.pc = "failed", !.sid = sid, !.msg = m,
                                   !.props = sr.properties, !.searches = 1, !.gens = 1]
           ELSE [IdleStream EXCEPT !.pc = "streaming", !.sid = sid, !.msg = m,
                                   !.props = sr.properties, !.searches = 1, !.gens = 1,
                                   !.upstream = SseStreams[g], !.callOpen = TRUE,
                                   !.producer = "running"]

\* index.ts lines 158-228 with chatbot.ts lines 333-401: the request is handled up to
\* the response
SseOpen(sid, m, readOk, writeOk, f, qe, g) ==
  /\ SseOver
  /\ StreamSpends(1 + (IF readOk /\ (writeOk \/ sessions[sid].exists) THEN 0 ELSE FaultCost)
                    + (IF f = <<"none", "none">> THEN 0 ELSE FaultCost)
                    + (IF g # 0 THEN 0 ELSE FaultCost))
  /\ sessions' = sseSessions(sid, readOk, writeOk)
  /\ SseSearched(sid, m,
                 searchProperties([query |-> StreamMessages[m],
                                   filters |-> extractFilters(StreamMessages[m])],
                                  f[1], f[2], qe), g)
  /\ UNCHANGED <<now, docs, propertyLinkCache, openaiCache>>
  /\ UNCHANGED <<turnVars, searchVars, filterVars, unitVars, probeVars>>

\* index.ts lines 179-191, one round of `for await (const chunk of stream)`: the next
\* delta is read from the generation call; its content, if any, is enqueued as an event.
\* enqueue raises on a cancelled stream, so do the enqueue of the catch block and the
\* close of the finally block; leaving the loop that way ends the generation call
pumped(t, content) ==
  IF content = ""
  THEN [t EXCEPT !.upstream = Tail(@),
                 !.lateReads = @ + (IF t.cancelled THEN 1 ELSE 0)]
  ELSE IF t.cancelled
  THEN [t EXCEPT !.upstream = Tail(@), !.lateReads = @ + 1,
                 !.fullResponse = @ \o content,
                 !.producer = "stopped", !.callOpen = FALSE]
  ELSE [t EXCEPT !.upstream = Tail(@), !.fullResponse = @ \o content,
                 !.queue = Append(@, contentEvent(content))]

SsePump ==
  /\ st.pc = "streaming"
  /\ st.producer = "running"
  /\ st.upstream # <<>>
  /\ st' = pumped(st, Head(st.upstream))
  /\ UNCHANGED <<now, storeVars, spent, sessions, propertyLinkCache, openaiCache>>
  /\ UNCHANGED <<turnVars, searchVars, filterVars, unitVars, probeVars>>

\* index.ts lines 193-197: the generation stream has ended; the completion event and
\* the [DONE] event are enqueued
SseComplete ==
  /\ st.pc = "streaming"
  /\ st.producer = "running"
  /\ st.upstream = <<>>
  /\ st' = IF st.cancelled
           THEN [st EXCEPT !.producer = "stopped", !.callOpen = FALSE]
           ELSE [st EXCEPT !.producer = "storing", !.callOpen = FALSE,
                           !.queue = @ \o <<completionEvent(st.fullResponse), DoneEvent>>]
  /\ UNCHANGED <<now, storeVars, spent, sessions, propertyLinkCache, openaiCache>>
  /\ UNCHANGED <<turnVars, searchVars, filterVars, unitVars, probeVars>>

\* index.ts lines 200-214: the two messages of the turn
sseTurn(t) ==
  << [role |-> "user", content |-> StreamMessages[t.msg]],
     [role |-> "assistant", content |-> t.fullResponse] >>

\* index.ts lines 199-225: the session is read again, the two messages are pushed and
\* the session is stored; a failure is logged.  Then the stream is closed
SseStore(readOk, writeOk) ==
  /\ st.pc = "streaming"
  /\ st.producer = "storing"
  /\ StreamSpends(IF readOk /\ writeOk THEN 0 ELSE FaultCost)
  /\ sessions' = IF readOk /\ sessions[st.sid].exists /\ writeOk
                 THEN [sessions EXCEPT ![st.sid].messages = @ \o sseTurn(st)]
                 ELSE sessions
  /\ st' = IF st.cancelled
           THEN [st EXCEPT !.producer = "stopped", !.lateStore = TRUE]
           ELSE [st EXCEPT !.producer = "closed", !.closeRequested = TRUE]
  /\ UNCHANGED <<now, storeVars, propertyLinkCache, openaiCache>>
  /\ UNCHANGED <<turnVars, searchVars, filterVars, unitVars, probeVars>>

NextSse ==
  \/ \E sid \in SessionIds, m \in StreamMsgIds, readOk \in BOOLEAN, writeOk \in BOOLEAN,
        f \in ChatFaults, qe \in QueryEmbeddings, g \in SseOutcomes :
       SseOpen(sid, m, readOk, writeOk, f, qe, g)
  \/ SsePump
  \/ SseComplete
  \/ \E readOk \in BOOLEAN, writeOk \in BOOLEAN : SseStore(readOk, writeOk)
  \/ ConsumerRead
  \/ ConsumerEnd
  \/ ConsumerCancel

InitSse ==
  /\ docs \in SseCatalogs
  /\ InitStore
  /\ InitChatVars
  /\ InitSearchVars
  /\ InitFilterVars
  /\ InitStreamVars
  /\ InitUnitVars

SpecSse == InitSse /\ [][NextSse]_vars

(***************************************************************************)
(* Properties of the streaming turns                                       *)
(***************************************************************************)

\* C13: when the search of a streaming turn and its retry over the whole catalog find
\* nothing, the answer is the fixed "no properties available" text and no generation
\* call is made
C13_ZeroCandidates ==
  (st.pc = "streaming" /\ ~st.greeting /\ st.props = <<>>) =>
     (st.gens = 0 /\ st.answer = Units(NoPropertiesText))

\* C16: when a streaming turn has completed, the user message and the assistant
\* message are in the stored session and the response cache holds the answer
C16_StreamTurnRecorded ==
  st.done =>
     /\ sessions[st.sid].exists
     /\ Len(sessions[st.sid].messages) >= 2
     /\ responseCache # <<>>

\* the chunks of a stream put together in the order they came
RECURSIVE Joined(_)
Joined(chunks) ==
  IF chunks = <<>> THEN <<>> ELSE Head(chunks) \o Joined(Tail(chunks))

\* C17: the chunks a reader got from the completed stream of a turn that is not a
\* greeting, put together in order, are the answer text; every chunk but the last is
\* ChunkSize characters long and the stream was closed after the last one
C17_ChunkOrdering ==
  (st.done /\ ~st.greeting) =>
     /\ Joined(st.delivered) = encode(st.answer)
     /\ \A k \in 1..(Len(st.sizes) - 1) : st.sizes[k] = ChunkSize
     /\ st.sizes[Len(st.sizes)] \in 1..ChunkSize
     /\ st.producer = "closed"

C19_GreetingFastPath ==
  (st.pc = "streaming" /\ greetingRegexTest(trim(StreamMessages[st.msg]))) =>
     /\ st.answer = greetingResponse
     /\ \A k \in 1..Len(st.sizes) : st.sizes[k] = 1
     /\ st.searches = 0
     /\ st.gens = 0

\* C20: once the reader of POST /chat/stream has cancelled, the generation call is
\* released, no event is waiting, and nothing has been read from the generation call
\* or read from or written to the session store since
C20_Cancellation ==
  (st.pc = "streaming" /\ st.cancelled) =>
     /\ ~st.callOpen
     /\ st.queue = <<>>
     /\ st.lateReads = 0
     /\ ~st.lateStore

\* C21: no stage of a streaming turn makes handleMessageStream raise to its caller
C21_StreamNeverAborts == st.pc # "raised"

(***************************************************************************)
(* ChatbotService.determineQueryType and extractFilters, applied to one    *)
(* message.                                                                *)
(***************************************************************************)
\* what the specifications of single functions leave alone
appVars == <<now, storeVars, spent, chatVars, searchVars, filterVars, streamVars>>

InitApp ==
  /\ docs = {}
  /\ InitStore
  /\ InitChatVars
  /\ InitSearchVars
  /\ InitFilterVars
  /\ InitStreamVars

\* lines 850-852
actionTerms ==
  <<"tour", "schedule", "visit", "apply", "application", "apply now", "details",
    "more info", "show me">>

\* lines 857-862
choiceTerms ==
  <<"option 1", "option 2", "option 3", "option 4", "1", "2", "3", "4",
    "first", "second", "third", "fourth">>

\* line 867
generalQueries ==
  <<"what properties", "show me properties", "all properties", "list properties",
    "available properties">>

\* line 873
exactFilters == <<"bed", "bath", "rent", "price", "pet", "dog", "cat">>

\* line 877
semanticTerms == <<"apartment", "house", "property", "available", "looking for">>

\* terms.some(term => lowerMessage.includes(term))
includesSome(lowerMessage, terms) ==
  \E k \in 1..Len(terms) : includes(lowerMessage, Units(terms[k]))

\* determineQueryType after toLowerCase, lines 849-882
queryTypeOf(lowerMessage) ==
  IF includesSome(lowerMessage, actionTerms) THEN "action"
  ELSE IF includesSome(lowerMessage, choiceTerms) THEN "choice"
  ELSE IF includesSome(lowerMessage, generalQueries) THEN "exact"
  ELSE IF /\ includesSome(lowerMessage, exactFilters)
          /\ includesSome(lowerMessage, semanticTerms) THEN "hybrid"
  ELSE IF includesSome(lowerMessage, exactFilters) THEN "exact"
  ELSE "semantic"

\* ChatbotService.determineQueryType
determineQueryType(userMessage) == queryTypeOf(toLowerCase(userMessage))

\* the messages of the model: what is asked for, a rent or a city, and a wish
ClassifyMessages ==
  {Units(a \o b \o c) :
     a \in {"Homes", "What properties", "show me properties", "All properties",
            "list properties", "available properties", "2 bedroom apartments", "3 bed"},
     b \in {"", " under $2000", " in Portland"},
     c \in {"", " with pets", " please", " to tour"}}

InitClassify ==
  /\ InitApp
  /\ InitProbeVars
  /\ cls \in {[NoCls EXCEPT !.msg = m] : m \in ClassifyMessages}
  /\ rateLimitMap = <<>>
  /\ gAdmit = <<>>
  /\ retry = <<>>
  /\ linked = <<>>
  /\ truncation = <<>>

\* both functions are applied to the message
Classify ==
  /\ ~cls.applied
  /\ cls' = [cls EXCEPT !.applied = TRUE, !.type = determineQueryType(cls.msg),
                        !.filters = extractFilters(cls.msg)]
  /\ UNCHANGED <<appVars, probeVars, rateLimitMap, gAdmit, retry, linked, truncation>>

NextClassify == Classify

SpecClassify == InitClassify /\ [][NextClassify]_vars

\* C22: a message with a generic-listing phrase and no filter keyword is classified exact
C22_GenericListing ==
  (/\ cls.applied
   /\ includesSome(toLowerCase(cls.msg), generalQueries)
   /\ ~includesSome(toLowerCase(cls.msg), exactFilters)) => cls.type = "exact"

\* C23: a message with a bedroom count, a descriptive noun, a rent under an amount and a
\* pet token, and no action keyword, is classified hybrid, and its filters are exactly
\* the bedroom count, the rent maximum and pets allowed
C23_HybridScenario ==
  (/\ cls.applied
   /\ cls.msg = Units("2 bedroom apartments under $2000 with pets")) =>
      /\ cls.type = "hybrid"
      /\ cls.filters = [NoFilters EXCEPT !.beds = 2, !.hasRent = TRUE, !.rentMax = 2000,
                                         !.pets_allowed = 1]

(***************************************************************************)
(* The rate limiting middleware and the session middleware of /api/*.      *)
(* Time is counted in parts of the window.                                 *)
(***************************************************************************)
\* RATE_LIMIT, line 65
RATE_LIMIT == 10

\* RATE_WINDOW, line 66 (60 * 1000 ms), in the time steps of the model
RATE_WINDOW == 2

\* the time the model runs to
MaxRateTime == 4

\* the X-Session-ID header of a request: a session id, or none
NoHeader == ""

RateHeaders == {"s1", NoHeader}

\* line 69: c.req.header('X-Session-ID') || 'anonymous'
rateKey(header) == IF header = NoHeader THEN "anonymous" ELSE header

RateKeys == {rateKey(h) : h \in RateHeaders}

\* rateLimitMap.get(sessionId) of a key the map does not hold
NoLimit == [has |-> FALSE, count |-> 0, resetTime |-> 0]

\* what is known of the windows of a key: whether one has begun, when the last one
\* began, how many requests were admitted since and whether one was refused
NoWindow == [begun |-> FALSE, start |-> 0, admitted |-> 0, refused |-> FALSE]

NoRequest == [key |-> "", status |-> 0, passed |-> FALSE, sessionId |-> "", at |-> 0]

\* variant: the eleventh request of a window is admitted
limited_offByOne(userLimit, t) ==
  userLimit.has /\ t < userLimit.resetTime /\ userLimit.count > RATE_LIMIT

\* lines 72-75: the request is refused
limited(userLimit, t) ==
  userLimit.has /\ t < userLimit.resetTime /\ userLimit.count >= RATE_LIMIT

\* lines 72-80: the entry of the key after the request
counted(userLimit, t) ==
  IF userLimit.has /\ t < userLimit.resetTime
  THEN IF limited(userLimit, t) THEN userLimit
       ELSE [userLimit EXCEPT !.count = @ + 1]
  ELSE [has |-> TRUE, count |-> 1, resetTime |-> t + RATE_WINDOW]

\* lines 86-87: the session id of the request; one without a header gets a new one
sessionIdOf(header, t) == IF header = NoHeader THEN <<"session", t>> ELSE header

\* the windows of a key after a request at t: a window begins with the first request,
\* and with the first request after the one before has ended
windowAfter(w, t, refused) ==
  IF w.begun /\ t < w.start + RATE_WINDOW
  THEN IF refused THEN [w EXCEPT !.refused = TRUE] ELSE [w EXCEPT !.admitted = @ + 1]
  ELSE [begun |-> TRUE, start |-> t, admitted |-> IF refused THEN 0 ELSE 1,
        refused |-> refused]

InitRate ==
  /\ InitApp
  /\ InitProbeVars
  /\ cls = NoCls
  /\ rateLimitMap = [k \in RateKeys |-> NoLimit]
  /\ gAdmit = [last |-> NoRequest, win |-> [k \in RateKeys |-> NoWindow]]
  /\ retry = <<>>
  /\ linked = <<>>
  /\ truncation = <<>>

\* lines 68-91: a request to /api/* goes through the two middlewares; it is answered
\* with 429, or passed on to its handler with its session id
ApiRequest(header) ==
  /\ rateLimitMap' = [rateLimitMap EXCEPT ![rateKey(header)] = counted(@, now)]
  /\ gAdmit' =
       [last |-> IF limited(rateLimitMap[rateKey(header)], now)
                 THEN [key |-> rateKey(header), status |-> 429, passed |-> FALSE,
                       sessionId |-> "", at |-> now]
                 ELSE [key |-> rateKey(header), status |-> 200, passed |-> TRUE,
                       sessionId |-> sessionIdOf(header, now), at |-> now],
        win |-> [gAdmit.win EXCEPT ![rateKey(header)] =
                   windowAfter(@, now, limited(rateLimitMap[rateKey(header)], now))]]
  /\ UNCHANGED <<appVars, probeVars, cls, retry, linked, truncation>>

\* time passes
RateTick ==
  /\ now < MaxRateTime
  /\ now' = now + 1
  /\ UNCHANGED <<storeVars, spent, chatVars, searchVars, filterVars, streamVars>>
  /\ UNCHANGED <<unitVars, probeVars>>

NextRate ==
  \/ \E header \in RateHeaders : ApiRequest(header)
  \/ RateTick

SpecRate == InitRate /\ [][NextRate]_vars

\* C24: in a window that began with a request of a key at most RATE_LIMIT of its
\* requests are admitted; a request is refused exactly when RATE_LIMIT were admitted in
\* the window before it, it is then answered with 429 and not passed on; and a request
\* that is passed on has a session id
C24_RateLimit ==
  /\ \A k \in RateKeys : gAdmit.win[k].admitted <= RATE_LIMIT
  /\ \A k \in RateKeys : gAdmit.win[k].refused => gAdmit.win[k].admitted = RATE_LIMIT
  /\ gAdmit.last.status = 429 <=> (gAdmit.last.key # "" /\ ~gAdmit.last.passed)
  /\ gAdmit.last.status = 429 => gAdmit.win[gAdmit.last.key].admitted = RATE_LIMIT
  /\ gAdmit.last.passed => gAdmit.last.sessionId # ""

\* a request of a key was refused in a window, and a later window of the key has begun
\* with a request that was admitted
C24_Witness ==
  /\ rateLimitMap["s1"].count = RATE_LIMIT
  /\ gAdmit.last.status = 429
  /\ gAdmit.last.key = "s1"
  /\ gAdmit.win["anonymous"].start >= RATE_WINDOW
  /\ gAdmit.win["anonymous"].admitted >= 1

(***************************************************************************)
(* OpenAIService.retryWithBackoff, one action per attempt.  An outcome of  *)
(* the operation is its result, or the error it raises: its status (0 for  *)
(* an error without one) and its retry-after header, in seconds (0 when    *)
(* the header is absent).  Waits are in milliseconds.                      *)
(***************************************************************************)
\* maxRetries, line 23
maxRetries == 3

\* baseDelay, line 24
baseDelay == 1000

\* nonRetryableErrors, line 26
nonRetryableErrors == {400, 401, 403}

Succeeds == [ok |-> TRUE, status |-> 200, retryAfter |-> 0]

Fault(status, retryAfter) == [ok |-> FALSE, status |-> status, retryAfter |-> retryAfter]

\* what the operation may do at an attempt
Outcomes ==
  {Succeeds, Fault(400, 0), Fault(404, 0), Fault(429, 0), Fault(429, 2), Fault(500, 0),
   Fault(0, 0)}

\* Math.pow(2, attempt)
RECURSIVE pow2(_)
pow2(n) == IF n = 0 THEN 1 ELSE 2 * pow2(n - 1)

\* line 39: error.headers?.['retry-after'] || baseDelay, handed to setTimeout, which
\* takes the number of the header as milliseconds
retryAfterDelay(error) == IF error.retryAfter = 0 THEN baseDelay ELSE error.retryAfter

IdleRetry ==
  [pc |-> "running", attempt |-> 0, seen |-> <<>>, waits |-> <<>>, returned |-> FALSE,
   raised |-> FALSE, error |-> 0]

\* lines 28-57: the round of the loop for an attempt whose outcome is o
attempted(r, o) ==
  IF o.ok
  THEN [r EXCEPT !.pc = "done", !.seen = Append(@, o), !.returned = TRUE]
  ELSE IF o.status \in nonRetryableErrors
  THEN [r EXCEPT !.pc = "done", !.seen = Append(@, o), !.raised = TRUE,
                 !.error = o.status]
  ELSE IF o.status = 429
  THEN [r EXCEPT !.seen = Append(@, o), !.waits = Append(@, retryAfterDelay(o)),
                 !.attempt = @ + 1]
  ELSE IF r.attempt = maxRetries
  THEN [r EXCEPT !.pc = "done", !.seen = Append(@, o), !.raised = TRUE,
                 !.error = o.status]
  ELSE [r EXCEPT !.seen = Append(@, o),
                 !.waits = Append(@, baseDelay * pow2(r.attempt)),
                 !.attempt = @ + 1]

InitRetry ==
  /\ InitApp
  /\ InitProbeVars
  /\ cls = NoCls
  /\ rateLimitMap = <<>>
  /\ gAdmit = <<>>
  /\ retry = IdleRetry
  /\ linked = <<>>
  /\ truncation = <<>>

\* lines 28-31: the operation is invoked
RetryAttempt(o) ==
  /\ retry.pc = "running"
  /\ retry.attempt <= maxRetries
  /\ retry' = attempted(retry, o)
  /\ UNCHANGED <<appVars, probeVars, cls, rateLimitMap, gAdmit, linked, truncation>>

\* line 59: the loop has ended after a rate-limit signal at the last attempt
RetryExit ==
  /\ retry.pc = "running"
  /\ retry.attempt > maxRetries
  /\ retry' = [retry EXCEPT !.pc = "done", !.raised = TRUE, !.error = -1]
  /\ UNCHANGED <<appVars, probeVars, cls, rateLimitMap, gAdmit, linked, truncation>>

NextRetry ==
  \/ \E o \in Outcomes : RetryAttempt(o)
  \/ RetryExit

SpecRetry == InitRetry /\ [][NextRetry]_vars

\* the status of an error is in the client-error class and is not the rate-limit signal
IsClientError(o) == ~o.ok /\ o.status \in 400..499 /\ o.status # 429

\* C26: the operation is not invoked again after it failed with a client error: the
\* call of retryWithBackoff has then raised that error after this one attempt
C26_NoRetryOnClientError ==
  \A i \in 1..Len(retry.seen) :
    IsClientError(retry.seen[i]) =>
       /\ i = Len(retry.seen)
       /\ retry.pc = "done" /\ retry.raised /\ retry.error = retry.seen[i].status

\* the wait the claim gives after the i-th attempt failed with o: the retry hint of the
\* provider, a number of seconds, after a rate-limit signal, the base delay when there is
\* none, and baseDelay * 2^attempt after another failure
ClaimedWait(o, i) ==
  IF o.status = 429
  THEN IF o.retryAfter = 0 THEN baseDelay ELSE 1000 * o.retryAfter
  ELSE baseDelay * pow2(i - 1)

\* C27: the operation is invoked at most maxRetries + 1 times, every wait is the claimed
\* one, and a call that has ended has returned the first success or raised
C27_CappedRetry ==
  /\ Len(retry.seen) <= maxRetries + 1
  /\ \A i \in 1..Len(retry.waits) : retry.waits[i] = ClaimedWait(retry.seen[i], i)
  /\ retry.pc = "done" => (retry.returned # retry.raised)
  /\ retry.returned => /\ retry.seen[Len(retry.seen)].ok
                       /\ \A i \in 1..(Len(retry.seen) - 1) : ~retry.seen[i].ok

\* C36: when retryWithBackoff gives up, the error it raises is the error of the last
\* attempt
C36_CausePreserved ==
  retry.raised => retry.error = retry.seen[Len(retry.seen)].status

(***************************************************************************)
(* The link post-processing of handleMessageStream (lines 532-570),        *)
(* applied to one generated text, one list of candidates and one state of  *)
(* propertyLinkCache.                                                      *)
(***************************************************************************)
\* the generated texts of the model
LinkTexts ==
  {Units("See it."),
   Units("[View Details](x)"),
   Units("Go: [Apply now](a) or [Schedule a tour here](b)."),
   Units("[View Details] [Schedule a tour] [Apply now]"),
   Units("[View Details for A](/v/A) and [View Details for B](/v/B)"),
   Units("[Home](h)")}

\* the candidates sent to the generation service
LinkLists == {<<>>, <<1>>, <<1, 2>>, <<2, 1>>, <<3, 1, 2>>}

\* what propertyLinkCache may hold
LinkCaches == SUBSET {1, 2}

NoLinked ==
  [response |-> <<>>, truncated |-> <<>>, cache |-> {}, applied |-> FALSE,
   result |-> <<>>]

InitLinks ==
  /\ InitApp
  /\ InitProbeVars
  /\ cls = NoCls
  /\ rateLimitMap = <<>>
  /\ gAdmit = <<>>
  /\ retry = <<>>
  /\ linked \in {[NoLinked EXCEPT !.response = r, !.truncated = t, !.cache = c] :
                   r \in LinkTexts, t \in LinkLists, c \in LinkCaches}
  /\ truncation = <<>>

\* lines 532-570 with the link cache as it is after line 537
ApplyLinks ==
  /\ ~linked.applied
  /\ linked' = [linked EXCEPT !.applied = TRUE,
                  !.result = fixLinks(linked.response, linked.truncated,
                                      linksBefore(linked.truncated, linked.cache))]
  /\ UNCHANGED <<appVars, probeVars, cls, rateLimitMap, gAdmit, retry, truncation>>

NextLinks == ApplyLinks

SpecLinks == InitLinks /\ [][NextLinks]_vars

\* the text holds markup of one of the three kinds of link
HasLinkMarkup(text) ==
  \/ includes(text, Units("[View Details"))
  \/ includes(text, Units("[Schedule a tour"))
  \/ includes(text, Units("[Apply now"))

\* the text after the links of the first candidate alone were put in
AfterFirst(l) ==
  replaceEach(l.response, Take(l.truncated, 1), linksBefore(l.truncated, l.cache))

\* the text after the links of the first two candidates were put in
AfterBoth(l) ==
  replaceEach(l.response, Take(l.truncated, 2), linksBefore(l.truncated, l.cache))

\* C28: a link put in for the first candidate is still in the text after the second
\* candidate was processed, and links are appended only to a text without link markup
C28_LinkPostProcessing ==
  linked.applied =>
     /\ \A kind \in {"view", "tour", "apply"} :
          (/\ Len(linked.truncated) >= 2
           /\ linked.truncated[1] \in linksBefore(linked.truncated, linked.cache)
           /\ includes(AfterFirst(linked), linksOf(linked.truncated[1])[kind]))
          => includes(AfterBoth(linked), linksOf(linked.truncated[1])[kind])
     /\ HasLinkMarkup(linked.response) => linked.result = AfterBoth(linked)

(***************************************************************************)
(* ChatbotService.truncatePropertyData applied to one list of candidates   *)
(* and one token budget.                                                   *)
(***************************************************************************)
\* the longest list in the model
MaxListLen == 4

\* the token budgets: the default of line 113 and a smaller one
TruncBudgets == {1000, MaxTokens}

\* the lists of candidates, records of usual length and long ones
TruncLists ==
  UNION {[1..n -> {1, 2, 3, BigKey, HugeKey}] : n \in 0..MaxListLen}

NoTruncation == [properties |-> <<>>, maxTokens |-> 0, applied |-> FALSE, result |-> <<>>]

InitTruncate ==
  /\ InitApp
  /\ InitProbeVars
  /\ cls = NoCls
  /\ rateLimitMap = <<>>
  /\ gAdmit = <<>>
  /\ retry = <<>>
  /\ linked = <<>>
  /\ truncation \in {[NoTruncation EXCEPT !.properties = l, !.maxTokens = b] :
                       l \in TruncLists, b \in TruncBudgets}

ApplyTruncate ==
  /\ ~truncation.applied
  /\ truncation' = [truncation EXCEPT !.applied = TRUE,
                      !.result = truncatePropertyData(truncation.properties,
                                                      truncation.maxTokens)]
  /\ UNCHANGED <<appVars, probeVars, cls, rateLimitMap, gAdmit, retry, linked>>

NextTruncate == ApplyTruncate

SpecTruncate == InitTruncate /\ [][NextTruncate]_vars

\* C29: what truncatePropertyData returns is a prefix of the list, and its estimated
\* token cost is at most the budget
C29_TruncationFits ==
  truncation.applied =>
     /\ truncation.result = Take(truncation.properties, Len(truncation.result))
     /\ estimateTokens(JsonLength(truncation.result)) <= truncation.maxTokens

\* C38: with the budget the callers use, truncatePropertyData returns at least one
\* candidate of a list that has one
C38_KeepsOneCandidate ==
  (truncation.applied /\ truncation.maxTokens = MaxTokens /\ truncation.properties # <<>>)
    => truncation.result # <<>>


(***************************************************************************)
(* normalizeCacheKey and extractFilters, applied to two messages: the key  *)
(* of the response cache against the filters of the search.                *)
(***************************************************************************)
\* what the specifications of this part leave alone
baseVars == <<now, storeVars, spent, chatVars, searchVars, filterVars, streamVars, unitVars>>

InitBase ==
  /\ InitApp
  /\ cls = NoCls
  /\ rateLimitMap = <<>>
  /\ gAdmit = <<>>
  /\ retry = <<>>
  /\ linked = <<>>
  /\ truncation = <<>>

\* the messages of the model: a rent limit with or without its "$", a count of baths
\* with or without its ".", in either case of letters
KeyMessages ==
  {Units(a \o b \o c) :
     a \in {"under ", "Under ", "homes "},
     b \in {"$1500", "1500"},
     c \in {"", " 1.5 bath", " 15 bath", " 2 bed!"}}

NoKeyed == [a |-> <<>>, b |-> <<>>, applied |-> FALSE, keyA |-> <<>>, keyB |-> <<>>,
            filtersA |-> NoFilters, filtersB |-> NoFilters]

InitKeys ==
  /\ InitBase
  /\ keyed \in {[NoKeyed EXCEPT !.a = a, !.b = b] : a \in KeyMessages, b \in KeyMessages}
  /\ api = <<>>
  /\ conn = <<>>
  /\ cosine = <<>>
  /\ stale = <<>>

\* handleMessage line 157 and line 177, for each of the two messages
ApplyKeys ==
  /\ ~keyed.applied
  /\ keyed' = [keyed EXCEPT !.applied = TRUE,
                            !.keyA = normalizeCacheKey(keyed.a),
                            !.keyB = normalizeCacheKey(keyed.b),
                            !.filtersA = extractFilters(keyed.a),
                            !.filtersB = extractFilters(keyed.b)]
  /\ UNCHANGED <<baseVars, api, conn, cosine, stale>>

NextKeys == ApplyKeys

SpecKeys == InitKeys /\ [][NextKeys]_vars

\* C31: two messages with the same response-cache key have the same filters
C31_KeyRespectsFilters ==
  (keyed.applied /\ keyed.keyA = keyed.keyB) => keyed.filtersA = keyed.filtersB


(***************************************************************************)
(* A whole chat turn at its boundary, one action per request: POST         *)
(* /api/chat of the server (after the rate limiting middleware has let the *)
(* request through), and handleMessage called with its arguments as        *)
(* declared.  The store answers every call.                                *)
(***************************************************************************)
\* the requests of a behaviour
MaxApiRequests == 3

\* the time the model runs to
MaxApiTime == 2

\* the X-Session-ID header of a request
ApiHeaders == {"s1", "S1", NoHeader}

\* the message of the request body; none is the empty text
ApiBodies == {"pets", "all", ""}

\* the session ids handleMessage is called with directly
CallerSessions == {"s1", "s2"}

\* Math.random().toString(36).substr(2, 9)
RandomParts == {"k3x"}

\* logger.ts line 86: the session id of a request without the header
freshSessionId(t, r) == "session_" \o ToString(t) \o "_" \o r

\* logger.ts lines 86-87
apiSessionId(header, t, r) == IF header = NoHeader THEN freshSessionId(t, r) ELSE header

\* the texts handleMessage can be called with
ApiIds ==
  (ApiHeaders \ {NoHeader}) \cup CallerSessions \cup (ApiBodies \ {""})
    \cup {freshSessionId(t, r) : t \in 0..MaxApiTime, r \in RandomParts}

NoApiRequest ==
  [route |-> FALSE, header |-> "", message |-> "", status |-> 0, sessionId |-> "",
   session |-> "", userMessage |-> "", hit |-> FALSE, answer |-> FixedAnswer(""),
   writer |-> ""]

\* history: the requests so far, the last one, and the session id of the request that
\* wrote the entry of each key of the response cache
NoApi ==
  [count |-> 0, last |-> NoApiRequest,
   writer |-> [k \in {normalizeCacheKey(Units(x)) : x \in ApiIds} |-> ""]]

InitApi ==
  /\ docs = {1, 2}
  /\ InitStore
  /\ responseCache = <<>>
  /\ sessions = [s \in ApiIds |-> NoSession]
  /\ propertyLinkCache = {}
  /\ req = [p \in Procs |-> IdleReq]
  /\ started = [s \in SessionIds |-> 0]
  /\ gWritten = [k \in NormKeys |-> NotWritten]
  /\ gRet = NoRet
  /\ gOverlap = [s \in SessionIds |-> FALSE]
  /\ gRecent = <<>>
  /\ gFaulted = FALSE
  /\ InitSearchVars
  /\ InitFilterVars
  /\ InitStreamVars
  /\ cls = NoCls
  /\ rateLimitMap = <<>>
  /\ gAdmit = <<>>
  /\ retry = <<>>
  /\ linked = <<>>
  /\ truncation = <<>>
  /\ keyed = <<>>
  /\ api = NoApi
  /\ conn = <<>>
  /\ cosine = <<>>
  /\ stale = <<>>

\* RedisService.searchProperties on the caches an earlier search has left
searchAfter(prev, query, qe) ==
  LET fp  == getCacheKey(query)
      hit == LangEntries(prev.lang, fp, now)
      r   == ComputeSearch([docs |-> docs, now |-> now, fault |-> "none", qe |-> qe],
                           prev.h, query)
  IN  IF hit # {}
      THEN [properties |-> (CHOOSE e \in hit : TRUE).ret, h |-> prev.h, lang |-> prev.lang]
      ELSE [properties |-> r.ret, h |-> r.h,
            lang |-> IF r.threw THEN prev.lang ELSE LangSet(prev.lang, fp, r.ret, now)]

\* handleMessage lines 175-206: the search for the message and, when it finds nothing,
\* the search for every property
searchesOf(first, qe) ==
  IF Len(first.properties) > 0 THEN first
  ELSE searchAfter(first, [query |-> T_star, filters |-> NoFilters], qe)

\* handleMessage lines 329-342: the two messages pushed to the session
pushed(messages, userMessage, response, t) ==
  messages \o << [role |-> "user", content |-> userMessage, timestamp |-> t],
                 [role |-> "assistant", content |-> response, timestamp |-> t] >>

\* handleMessage lines 157-165: the answer is taken from the response cache
served(key, sessionId, userMessage, request) ==
  /\ responseCache' = lruAfterGet(responseCache, key, now)
  /\ api' = [api EXCEPT !.count = @ + 1,
                        !.last = [request EXCEPT
                                    !.session = sessionId, !.userMessage = userMessage,
                                    !.hit = TRUE,
                                    !.answer = responseCache[lruIndex(responseCache, key)].response,
                                    !.writer = api.writer[key]]]
  /\ UNCHANGED <<sessions, propertyLinkCache, propertyCache, cacheTimestamp, langCache>>

\* handleMessage lines 168-394: the session is read or created, the search has found
\* properties, their links are cached, the answer is generated, cached and pushed to
\* the session with the message, and the session is stored; with no property at all,
\* or with a property without links, a fixed text is returned and nothing is cached
answered(key, sessionId, userMessage, request, sr, truncated, genOk) ==
  LET raised   == FirstWithoutUrls(sr.properties) # 0
      found    == Len(sr.properties) > 0 /\ ~raised
      links    == propertyLinkCache \cup
                    {PropOf(sr.properties[i]).listing_id : i \in 1..Len(sr.properties)}
      response == IF raised THEN caught(LinkError)
                  ELSE IF ~found THEN FixedAnswer(NoPropertiesText)
                  ELSE AnswerOf(truncated, genOk, links)
      session  == IF sessions[sessionId].exists THEN sessions[sessionId].messages ELSE <<>>
  IN  /\ responseCache' =
           IF found THEN lruSet(lruSet(lruAfterGet(responseCache, key, now),
                                       key, response, now), key, response, now)
           ELSE lruAfterGet(responseCache, key, now)
      /\ sessions' = [sessions EXCEPT ![sessionId] =
           [exists |-> TRUE,
            messages |-> IF found THEN pushed(session, userMessage, response, now)
                         ELSE session]]
      /\ propertyLinkCache' = IF raised THEN propertyLinkCache ELSE links
      /\ propertyCache' = sr.h.propertyCache
      /\ cacheTimestamp' = sr.h.cacheTimestamp
      /\ langCache' = sr.lang
      /\ api' = [api EXCEPT !.count = @ + 1,
                            !.last = [request EXCEPT
                                        !.session = sessionId, !.userMessage = userMessage,
                                        !.answer = response],
                            !.writer = IF found THEN [@ EXCEPT ![key] = request.sessionId]
                                       ELSE @]

\* ChatbotService.handleMessage(sessionId, userMessage)
handleMessage(sessionId, userMessage, genOk, qe, request) ==
  IF IsCacheHit(responseCache, normalizeCacheKey(Units(userMessage)), now)
  THEN served(normalizeCacheKey(Units(userMessage)), sessionId, userMessage, request)
  ELSE answered(normalizeCacheKey(Units(userMessage)), sessionId, userMessage, request,
                searchesOf(searchAfter([h |-> CacheNow, lang |-> langCache],
                                       [query |-> Units(userMessage),
                                        filters |-> extractFilters(Units(userMessage))],
                                       qe), qe),
                truncatePropertyData(
                  searchesOf(searchAfter([h |-> CacheNow, lang |-> langCache],
                                         [query |-> Units(userMessage),
                                          filters |-> extractFilters(Units(userMessage))],
                                         qe), qe).properties, MaxTokens),
                genOk)

\* what a turn at the boundary leaves alone
apiRest == <<now, docs, spent, req, started, gWritten, gRet, gOverlap, gRecent, gFaulted,
             searchVars, filterVars, streamVars, unitVars, keyed, conn, cosine, stale>>

\* logger.ts lines 86-87 and 139-160: POST /api/chat.  A body without a message is
\* answered with 400; otherwise the route calls handleMessage(message, sessionId)
ChatRoute(header, message, r, genOk, qe) ==
  /\ api.count < MaxApiRequests
  /\ IF message = ""
     THEN /\ api' = [api EXCEPT !.count = @ + 1,
                      !.last = [NoApiRequest EXCEPT !.route = TRUE, !.header = header,
                                  !.status = 400,
                                  !.sessionId = apiSessionId(header, now, r)]]
          /\ UNCHANGED <<responseCache, sessions, propertyLinkCache, propertyCache,
                         cacheTimestamp, langCache>>
     ELSE handleMessage(message, apiSessionId(header, now, r), genOk, qe,
                        [NoApiRequest EXCEPT !.route = TRUE, !.header = header,
                           !.message = message, !.status = 200,
                           !.sessionId = apiSessionId(header, now, r)])
  /\ UNCHANGED apiRest

\* handleMessage called with the session id and the message, as the routes of
\* src/api/index.ts (line 121) and src/src/index.ts (line 144) call it
ChatCall(sessionId, message, genOk, qe) ==
  /\ api.count < MaxApiRequests
  /\ handleMessage(sessionId, message, genOk, qe,
                   [NoApiRequest EXCEPT !.message = message, !.status = 200,
                                        !.sessionId = sessionId])
  /\ UNCHANGED apiRest

\* time passes; the store drops the langcache entries whose EX has run out
ApiTick ==
  /\ now < MaxApiTime
  /\ now' = now + 1
  /\ langCache' = {e \in langCache : (now + 1 - e.setAt) < LangCacheEX}
  /\ UNCHANGED <<docs, propertyCache, cacheTimestamp, spent, chatVars, searchVars,
                 filterVars, streamVars, unitVars, probeVars>>

NextApi ==
  \/ \E header \in ApiHeaders, message \in ApiBodies, r \in RandomParts,
        genOk \in BOOLEAN, qe \in QueryEmbeddings :
       ChatRoute(header, message, r, genOk, qe)
  \/ \E sessionId \in CallerSessions, message \in ApiBodies \ {""},
        genOk \in BOOLEAN, qe \in QueryEmbeddings :
       ChatCall(sessionId, message, genOk, qe)
  \/ ApiTick

SpecApi == InitApi /\ [][NextApi]_vars

\* the content of the last user message of a session
lastUserContent(messages) == messages[Len(messages) - 1].content

\* C32: a request to POST /api/chat that is not refused runs its turn with the
\* request's session id as the session and the request's message as the user message;
\* a turn that missed the response cache has stored the session of that id, and the
\* user message pushed to it is the request's message
C32_BoundaryBinding ==
  (api.last.route /\ api.last.status = 200) =>
    /\ api.last.session = api.last.sessionId
    /\ api.last.userMessage = api.last.message
    /\ ~api.last.hit =>
         /\ sessions[api.last.sessionId].exists
         /\ lastUserContent(sessions[api.last.sessionId].messages) = api.last.message

\* C35: an answer served from the response cache was written by a turn of a request
\* with the same session id
C35_SessionIsolation ==
  api.last.hit => api.last.writer = api.last.sessionId


(***************************************************************************)
(* RedisService.searchProperties while the catalog changes, one action per *)
(* call.  The store answers every call.                                    *)
(***************************************************************************)
\* last minute of the clock
MaxStaleTime == 6

\* the changes of the catalog in a behaviour
MaxChanges == 1

\* the catalog at the start, and the property stored later
StaleCatalog == {1, 2, 3}

StaleKeys == StaleCatalog \cup {4}

\* "all", "homes", "pets"
StaleQueries ==
  [i \in 1..3 |->
     [query |-> Units(<<"all", "homes", "pets">>[i]),
      filters |-> extractFilters(Units(<<"all", "homes", "pets">>[i]))]]

Never == Undef

NoStale ==
  [last |-> [done |-> FALSE, qi |-> 0, properties |-> <<>>],
   storedAt |-> [k \in StaleKeys |-> Never], removedAt |-> [k \in StaleKeys |-> Never],
   changes |-> 0]

InitStale ==
  /\ docs = StaleCatalog
  /\ InitStore
  /\ InitChatVars
  /\ InitSearchVars
  /\ InitFilterVars
  /\ InitStreamVars
  /\ cls = NoCls
  /\ rateLimitMap = <<>>
  /\ gAdmit = <<>>
  /\ retry = <<>>
  /\ linked = <<>>
  /\ truncation = <<>>
  /\ keyed = <<>>
  /\ api = <<>>
  /\ conn = <<>>
  /\ cosine = <<>>
  /\ stale = NoStale

staleRest == <<spent, chatVars, searchVars, filterVars, streamVars, unitVars, keyed, api,
               conn, cosine>>

\* searchProperties lines 244-293, sr being its result and the caches it leaves
StaleSearched(qi, sr) ==
  /\ propertyCache' = sr.h.propertyCache
  /\ cacheTimestamp' = sr.h.cacheTimestamp
  /\ langCache' = sr.lang
  /\ stale' = [stale EXCEPT !.last = [done |-> TRUE, qi |-> qi,
                                      properties |-> sr.properties]]
  /\ UNCHANGED <<now, docs, staleRest>>

StaleSearch(qi, qe) ==
  StaleSearched(qi, searchProperties(StaleQueries[qi], "none", "none", qe))

\* storeProperty lines 153-156: the document is written
StoreProperty(k) ==
  /\ k \notin docs
  /\ stale.changes < MaxChanges
  /\ docs' = docs \cup {k}
  /\ stale' = [stale EXCEPT !.last = NoStale.last, !.storedAt[k] = now,
                            !.changes = @ + 1]
  /\ UNCHANGED <<now, propertyCache, cacheTimestamp, langCache, staleRest>>

\* removeSampleData lines 704-727: every property is deleted
RemoveProperties ==
  /\ docs # {}
  /\ stale.changes < MaxChanges
  /\ docs' = {}
  /\ stale' = [stale EXCEPT !.last = NoStale.last,
                            !.removedAt = [k \in StaleKeys |-> IF k \in docs THEN now ELSE @[k]],
                            !.changes = @ + 1]
  /\ UNCHANGED <<now, propertyCache, cacheTimestamp, langCache, staleRest>>

\* time passes; the store drops the langcache entries whose EX has run out
StaleTick ==
  /\ now < MaxStaleTime
  /\ now' = now + 1
  /\ langCache' = {e \in langCache : (now + 1 - e.setAt) < LangCacheEX}
  /\ stale' = [stale EXCEPT !.last = NoStale.last]
  /\ UNCHANGED <<docs, propertyCache, cacheTimestamp, staleRest>>

NextStale ==
  \/ \E qi \in DOMAIN StaleQueries, qe \in QueryEmbeddings : StaleSearch(qi, qe)
  \/ \E k \in StaleKeys : StoreProperty(k)
  \/ RemoveProperties
  \/ StaleTick

SpecStale == InitStale /\ [][NextStale]_vars

\* the properties of a list
Listed(properties) == {properties[i] : i \in 1..Len(properties)}

\* C34: the list searchProperties returns holds no property that was removed more than
\* CACHE_TTL before and has not been stored since, and a search without filters, of a
\* catalog that fits under the cap of the result, returns every property that was
\* stored more than CACHE_TTL before and has not been removed since
C34_StalenessBound ==
  stale.last.done =>
    \A k \in StaleKeys :
      /\ (k \notin docs /\ stale.removedAt[k] # Never /\ now - stale.removedAt[k] > CACHE_TTL)
            => k \notin Listed(stale.last.properties)
      /\ (/\ k \in docs /\ stale.storedAt[k] # Never /\ now - stale.storedAt[k] > CACHE_TTL
          /\ FilterKeyCount(StaleQueries[stale.last.qi].filters) = 0
          /\ Cardinality(docs) <= SemanticTop)
            => k \in Listed(stale.last.properties)


(***************************************************************************)
(* RedisService.cosineSimilarity applied to two vectors.  The components   *)
(* are of the size of the components of embeddings, so every sum of the    *)
(* function is a finite number.                                            *)
(***************************************************************************)
\* the most dimensions of a vector in the model
MaxDim == 3

\* the vectors, of 0 to MaxDim dimensions
Vectors == UNION {[1..n -> {-1, 0, 1}] : n \in 0..MaxDim}

NoCosine == [a |-> <<>>, b |-> <<>>, applied |-> FALSE, result |-> 0]

InitCosine ==
  /\ InitBase
  /\ keyed = <<>>
  /\ api = <<>>
  /\ conn = <<>>
  /\ cosine \in {[NoCosine EXCEPT !.a = a, !.b = b] : a \in Vectors, b \in Vectors}
  /\ stale = <<>>

\* the function is applied to the two vectors
ApplyCosine ==
  /\ ~cosine.applied
  /\ cosine' = [cosine EXCEPT !.applied = TRUE,
                              !.result = cosineSimilarity(cosine.a, cosine.b)]
  /\ UNCHANGED <<baseVars, keyed, api, conn, stale>>

NextCosine == ApplyCosine

SpecCosine == InitCosine /\ [][NextCosine]_vars

\* C39: for two vectors of different dimensions, and for two vectors one of which has
\* norm zero, cosineSimilarity returns 0
C39_DegenerateCosine ==
  (/\ cosine.applied
   /\ \/ Len(cosine.a) # Len(cosine.b)
      \/ Dot(cosine.a, cosine.a) = 0
      \/ Dot(cosine.b, cosine.b) = 0)
    => cosine.result = 0

\* the function was applied to two vectors of different dimensions whose leading
\* components are parallel
C39_Witness ==
  /\ cosine.applied
  /\ cosine.a = <<1, 1>>
  /\ cosine.b = <<1, 1, 0>>
  /\ cosine.result = 0


(***************************************************************************)
(* RedisService.connect, _connect and ensureConnection, one action per     *)
(* stretch between awaits.  A promise of _connect is pending while         *)
(* client.connect() is awaited, indexing while createVectorIndex is, and   *)
(* then resolved or rejected.                                              *)
(***************************************************************************)
\* the calls of _connect in a behaviour
MaxAttempts == 3

\* the callers of connect and ensureConnection
Callers == {1, 2, 3}

\* connectionPromise = null
NoPromise == 0

IdleCaller == [pc |-> "idle", awaits |-> NoPromise, observed |-> ""]

\* after the constructor, lines 15-54
NoConn ==
  [isConnected |-> FALSE, isOpen |-> FALSE, connectionPromise |-> NoPromise,
   promises |-> <<>>, callers |-> [p \in Callers |-> IdleCaller]]

InitConnect ==
  /\ InitBase
  /\ keyed = <<>>
  /\ api = <<>>
  /\ conn = NoConn
  /\ cosine = <<>>
  /\ stale = <<>>

connRest == <<baseVars, keyed, api, cosine, stale>>

Unsettled(promise) == promise.state \in {"pending", "indexing"}

\* _connect lines 71-79, up to its first await: with the connection up it returns,
\* otherwise client.connect() is called
_connect(c) ==
  IF c.isConnected /\ c.isOpen
  THEN [state |-> "resolved", client |-> FALSE]
  ELSE [state |-> "pending", client |-> TRUE]

\* variant: connect starts an attempt whether or not one is pending
connected_unguarded(c, p) ==
  [c EXCEPT !.promises = Append(@, _connect(c)),
            !.isOpen = TRUE,
            !.connectionPromise = Len(c.promises) + 1,
            !.callers[p] = [pc |-> "owner", awaits |-> Len(c.promises) + 1,
                            observed |-> ""]]

\* connect lines 57-64, up to its await: a pending promise is returned, otherwise
\* _connect is called and its promise kept
connected(c, p) ==
  IF c.connectionPromise # NoPromise
  THEN [c EXCEPT !.callers[p] = [pc |-> "sharer", awaits |-> c.connectionPromise,
                                 observed |-> ""]]
  ELSE [c EXCEPT !.promises = Append(@, _connect(c)),
                 !.isOpen = TRUE,
                 !.connectionPromise = Len(c.promises) + 1,
                 !.callers[p] = [pc |-> "owner", awaits |-> Len(c.promises) + 1,
                                 observed |-> ""]]

\* connect() is called
ConnectCall(p) ==
  /\ conn.callers[p].pc = "idle"
  /\ Len(conn.promises) < MaxAttempts
  /\ conn' = connected(conn, p)
  /\ UNCHANGED connRest

\* ensureConnection lines 106-111: connect is called unless the connection is up
EnsureCall(p) ==
  /\ conn.callers[p].pc = "idle"
  /\ Len(conn.promises) < MaxAttempts
  /\ conn' = IF ~conn.isConnected \/ ~conn.isOpen
             THEN connected(conn, p)
             ELSE [conn EXCEPT !.callers[p] = [IdleCaller EXCEPT !.observed = "up"]]
  /\ UNCHANGED connRest

\* _connect lines 78-87: client.connect() resolves, or it rejects and the error is
\* thrown; the socket of a client whose connect was rejected is open or not
ClientSettles(id, ok, open) ==
  /\ id \in 1..Len(conn.promises)
  /\ conn.promises[id].state = "pending"
  /\ ok => open
  /\ conn' = [conn EXCEPT !.isConnected = ok, !.isOpen = open,
                          !.promises[id].state = IF ok THEN "indexing" ELSE "rejected"]
  /\ UNCHANGED connRest

\* _connect line 83 and createVectorIndex, which absorbs its failures
IndexDone(id) ==
  /\ id \in 1..Len(conn.promises)
  /\ conn.promises[id].state = "indexing"
  /\ conn' = [conn EXCEPT !.promises[id].state = "resolved"]
  /\ UNCHANGED connRest

\* connect lines 65-68 and the callers that were returned the promise: the promise has
\* settled, the caller that made it clears connectionPromise, and each has its outcome
Resume(p) ==
  /\ conn.callers[p].pc # "idle"
  /\ ~Unsettled(conn.promises[conn.callers[p].awaits])
  /\ conn' = [conn EXCEPT
                !.connectionPromise = IF conn.callers[p].pc = "owner" THEN NoPromise ELSE @,
                !.callers[p] = [@ EXCEPT !.pc = "idle",
                                         !.observed = conn.promises[conn.callers[p].awaits].state]]
  /\ UNCHANGED connRest

\* lines 30-38: the client reports 'connect' or 'ready' while client.connect() is
\* awaited
ConnectionReady(id) ==
  /\ id \in 1..Len(conn.promises)
  /\ conn.promises[id].state = "pending"
  /\ ~conn.isConnected
  /\ conn' = [conn EXCEPT !.isConnected = TRUE]
  /\ UNCHANGED connRest

\* lines 40-53: the client reports an error, the end of the connection or a reconnect
ConnectionLost(open) ==
  /\ conn.isConnected
  /\ conn' = [conn EXCEPT !.isConnected = FALSE, !.isOpen = open]
  /\ UNCHANGED connRest

NextConnect ==
  \/ \E p \in Callers : ConnectCall(p)
  \/ \E p \in Callers : EnsureCall(p)
  \/ \E id \in 1..MaxAttempts, ok \in BOOLEAN, open \in BOOLEAN : ClientSettles(id, ok, open)
  \/ \E id \in 1..MaxAttempts : IndexDone(id)
  \/ \E p \in Callers : Resume(p)
  \/ \E id \in 1..MaxAttempts : ConnectionReady(id)
  \/ \E open \in BOOLEAN : ConnectionLost(open)

SpecConnect == InitConnect /\ [][NextConnect]_vars

\* C37: at most one promise of _connect is unsettled, so at most one client.connect()
\* is in flight; a caller waiting in connect for an unsettled promise waits for the one
\* kept in connectionPromise; a caller that has returned has the outcome of the promise
\* it waited for; and when no caller is in connect, connectionPromise is null, so the
\* next caller starts an attempt
C37_SingleFlight ==
  /\ Cardinality({id \in 1..Len(conn.promises) : Unsettled(conn.promises[id])}) <= 1
  /\ \A p \in Callers :
       (conn.callers[p].pc # "idle" /\ Unsettled(conn.promises[conn.callers[p].awaits]))
         => conn.callers[p].awaits = conn.connectionPromise
  /\ \A p \in Callers :
       (conn.callers[p].pc = "idle" /\ conn.callers[p].awaits # NoPromise)
         => conn.callers[p].observed = conn.promises[conn.callers[p].awaits].state
  /\ (\A p \in Callers : conn.callers[p].pc = "idle") => conn.connectionPromise = NoPromise

\* two callers have shared the first attempt, which was rejected, and a third has
\* started the second attempt
C37_Witness ==
  /\ conn.callers[1].observed = "rejected" /\ conn.callers[1].awaits = 1
  /\ conn.callers[2].observed = "rejected" /\ conn.callers[2].awaits = 1
  /\ conn.callers[3].pc = "owner" /\ conn.callers[3].awaits = 2
  /\ conn.promises[2].state = "pending"

====
